---------------------------- MODULE Spec2Model ----------------------------
(***************************************************************************)
(* A model of the orchestration core of onemin / 1MinAutoYT:               *)
(*   - the folder watcher's event handler (minautoyt/watcher.py),          *)
(*   - the approval store (onemin/approval.py),                            *)
(*   - the pipeline controller (minautoyt/pipeline.py),                    *)
(*   - the approval store's operations run by two processes at once,       *)
(*   - the approve and reject commands (onemin/cli.py) with execute_upload,*)
(*   - the uploader's upload_video (minautoyt/uploader.py),                *)
(*   - the scan for existing videos (watcher.process_existing_videos),     *)
(*   - the frame timestamps of analyzer.extract_frames and the frame       *)
(*     selection of thumbnail.generate_thumbnail, as functions,            *)
(*   - the commands run one after the other, and after a pipeline run,     *)
(*   - the store file while save_pending_requests writes it,               *)
(*   - the watch command with --existing (scan, then observer).            *)
(* Each component has its own specification over the shared variables;     *)
(* the variables of the other components keep their initial values.        *)
(***************************************************************************)
EXTENDS Integers, Sequences, FiniteSets, TLC

(***************************************************************************)
(* Bounds of the model.                                                    *)
(***************************************************************************)
\* Largest file size the environment writes (sizes are 0..MaxSize).
MaxSize == 2
\* Number of check_interval sleeps that fit into the stability timeout
\* (timeout / check_interval = 300 / 2 in the source, scaled down).
MaxPolls == 3
\* Number of process_video calls in one behaviour.
MaxRuns == 2
\* Largest number of next_chunk calls a transfer needs: the remote side
\* answers the last of them with a terminal response or an error.
MaxChunks == 3
\* Largest number of frames an analysis holds (settings.max_frames, 10 by
\* default).
MaxFrames == 10
\* Longest video whose frames are extracted, in minutes.
MaxMinutes == 10
\* Largest frame index the metadata adapter suggests (its prompt asks for a
\* frame 0-9).
MaxIndex == 9

(***************************************************************************)
(* Watcher: values.                                                        *)
(***************************************************************************)
\* Threads that may be inside on_created of one handler at the same time
\* (the in-flight set only matters when deliveries can overlap; with a single
\* thread every delivery finds the set empty).
Threads == {"t1", "t2"}

\* Paths of the watched folder that events are delivered for.
Paths == {"a.mp4", "n.txt", "N.TXT"}

\* Names of the entries a watched folder may hold when it is scanned.
DirNames == {"a.mp4", "c.mov", "b.MP4", "n.txt"}

\* Path(...).suffix of the modelled paths.
Suffix(p) ==
  CASE p = "a.mp4" -> ".mp4"
    [] p = "c.mov" -> ".mov"
    [] p = "b.MP4" -> ".MP4"
    [] p = "n.txt" -> ".txt"
    [] p = "N.TXT" -> ".TXT"
    [] OTHER -> ""

\* str.lower() on the suffixes that occur.
Lower(s) ==
  CASE s = ".MP4" -> ".mp4"
    [] s = ".MOV" -> ".mov"
    [] s = ".TXT" -> ".txt"
    [] OTHER -> s

\* A variant of VIDEO_EXTENSIONS that also lists text files.
VIDEO_EXTENSIONS_AND_TEXT ==
  {".mp4", ".mov", ".avi", ".mkv", ".webm", ".m4v", ".txt"}

VIDEO_EXTENSIONS == {".mp4", ".mov", ".avi", ".mkv", ".webm", ".m4v"}

\* FileCreatedEvent: the path and whether it is a directory.
Events == [src_path : Paths, is_directory : BOOLEAN]

\* Files another process may be writing while the handler polls them: the
\* handler reads the file system only for paths that pass the extension filter.
PolledPaths == {p \in Paths : Lower(Suffix(p)) \in VIDEO_EXTENSIONS}

NoEvent == [src_path |-> "", is_directory |-> FALSE]

(***************************************************************************)
(* Values shared by the approval store and the pipeline.                   *)
(***************************************************************************)
\* Python's None, for optional strings, optional lists and optional objects.
NoneStr == "<None>"
NoneList == <<"<None>">>
Null == [null |-> TRUE]

\* pathlib.Path objects and their str(): a Path wraps its text.
PathOf(text) == <<"Path", text>>
PathStr(path) == path[2]

\* Values str(uuid.uuid4())[:8] can take: the first 8 hex digits of a random
\* UUID (two of the 16^8 values).
Ids == {"0a1b2c3d", "9f8e7d6c"}

\* Values datetime.now().isoformat() takes.
Times == {"2026-01-01T00:00:00"}

VideoPaths == {PathOf("w/a.mp4")}
\* work_dir / "thumbnail.jpg" of a run
ThumbnailPath == PathOf("tmp/thumbnail.jpg")

\* What the metadata adapter generates, and what the user may supply instead.
GeneratedMetadata ==
  [title |-> "GT", description |-> "GD", tags |-> <<"g1", "g2">>,
   category_id |-> "22", suggested_thumbnail_index |-> 0]
TitleArgs == {NoneStr, "", "CT"}
DescriptionArgs == {NoneStr, "CD"}
TagsArgs == {NoneList, <<"c1">>}

\* VideoMetadata values that reach the store.
Metadatas ==
  [title : {"GT", "CT"}, description : {"GD", "CD"},
   tags : {<<"g1", "g2">>, <<"c1">>}, category_id : {"22"},
   suggested_thumbnail_index : {0}]

NonePath == <<"<None>">>

\* ProcessOptions values the command surface can build.
OptionsSet ==
  [custom_title : TitleArgs, custom_description : DescriptionArgs,
   custom_thumbnail : {NonePath, PathOf("my/frame.jpg")},
   custom_tags : TagsArgs, privacy : {NoneStr, "public"},
   skip_approval : BOOLEAN, dry_run : BOOLEAN]

NoOptions ==
  [custom_title |-> NoneStr, custom_description |-> NoneStr,
   custom_thumbnail |-> NonePath, custom_tags |-> NoneList,
   privacy |-> NoneStr, skip_approval |-> FALSE, dry_run |-> FALSE]

\* Durations ffprobe reports for a video (seconds); 0 is what get_video_info
\* yields when the container states none.
Durations == {0, 30}

\* Frames the analysis adapter extracts.
Frames == <<PathOf("tmp/frames/frame_000.jpg"), PathOf("tmp/frames/frame_001.jpg")>>

\* output_dir / f"frame_{i:03d}.jpg" (extract_frames line 109).
FramePath(i) == PathOf(<<"tmp/frames/frame_", i, ".jpg">>)

\* The frame list extract_frames returns for n frames: frame 0 to frame n-1,
\* in that order (lines 99, 107-124).
FrameList(n) == [i \in 1..n |-> FramePath(i - 1)]

\* Identifiers the remote platform gives an uploaded video.
VideoIds == {"yt1"}

\* Settings.default_privacy
default_privacy == "unlisted"

\* Processes that run store operations on the same file at the same time
\* (two commands, or a command and a running pipeline).
Procs == {"p1", "p2"}

\* Python truthiness of an optional string / optional list argument.
TruthyStr(x) == x # NoneStr /\ x # ""
TruthyList(x) == x # NoneList /\ x # <<>>

VARIABLES
  \* ---- approval store ----
  store,        \* pending_requests.json: request id -> record
  op,           \* the last store operation: its name, id argument, whether
                \* the id was a key of the store before it, the fields an
                \* update was given, and whether it saved the file (history)
  ret,          \* what the last store operation returned
  last_write,   \* request id -> the last operation that wrote its record, with
                \* the request object when that was a create (history)
  \* ---- pipeline: one process_video call at a time ----
  ppc,          \* position inside process_video
  video_path,   \* its argument
  options,      \* its argument
  analysis,     \* local: the analysis stage's result
  metadata,     \* local: the metadata object (overrides applied in place)
  thumbnail,    \* local: the thumbnail stage's result
  result,       \* local: the ProcessResult
  exc,          \* the call that raised, when process_video ended by raising
  upload_calls, \* upload_video calls of this run, with what each returned (history)
  create_calls, \* identifiers create_approval_request returned in this run (history)
  notify_calls, \* send_telegram_approval calls of this run (history)
  store0,       \* the store when this run started (history)
  stages,       \* the stages this run has attempted, in order (history)
  runs,         \* process_video calls so far (history)
  \* ---- store operations of concurrent processes ----
  rpc,          \* process -> "idle", or "loaded" between its load and its save
  rop,          \* process -> its current (or last) operation and arguments
  loaded,       \* process -> the mapping its operation loaded
  rret,         \* process -> what its last finished operation returned
  stale,        \* process -> the processes that saved since its last load (history)
  fbytes,       \* what the file holds: "whole", the whole JSON text of
                \* `store` (or there is no file and `store` is {}); "empty"
                \* or "partial", nothing or a proper prefix of the text a
                \* process is writing, `store` being what it held before
  \* ---- approve / reject commands, one per process at a time ----
  cpc,          \* process -> position inside its command
  cmd,          \* process -> its current (or last) command and argument
  crequest,     \* process -> local `request`: what get_request returned
  approved,     \* process -> what approve_request returned (history)
  dirty,        \* process -> another process wrote the record between this
                \* command's get_request and its approve_request (history)
  cexit,        \* process -> the exit code of its last command, once it ended
  cupload,      \* process -> whether its command called execute_upload, and
                \* what that returned
  attempts,     \* request id -> execute_upload calls made for the request
                \* stored under it by commands run one after the other: 0,
                \* 1, or 2 for more (history)
  ucall,        \* process -> its upload_video call in progress: the arguments
                \* and whether the thumbnail file existed
  \* ---- uploader: one upload_video call at a time ----
  upc,          \* position inside upload_video
  uargs,        \* its arguments
  response,     \* local `response` of the chunk loop
  chunks,       \* next_chunk calls made by this call (history)
  attach,       \* the thumbnail step of this call: what exists() gave, the
                \* attachment calls made, whether one failed (history)
  ubody,        \* the body of the insert request, once it is built
  uresult,      \* what upload_video returned
  uexc,         \* the call that raised, when upload_video ended by raising
  \* ---- a function called on its own ----
  fcall,        \* the last call: the function and its arguments
  fret,         \* what that call returned, or the exception it raised
  \* ---- process_existing_videos: one call at a time ----
  epc,          \* position inside process_existing_videos
  eexts,        \* the extensions the outer loop has not taken yet
  eglob,        \* the entries the current glob has not yielded yet
  evideo,       \* local `video` while the callback runs for it
  einvoked,     \* entry name -> callback invocations of this call (history)
  ecount,       \* local `count`
  \* ---- the watch command with --existing: one at a time ----
  kpc,          \* position inside the watch command
  kqueue,       \* the observer's queue: paths with a created event waiting
  kevent,       \* the path of the event the observer thread is dispatching
  \* ---- watcher ----
  fexists,      \* file system: path -> does the file exist
  fsize,        \* file system: path -> st_size (0 when absent)
  processing,   \* VideoHandler._processing
  pc,           \* thread -> position inside on_created
  ev,           \* thread -> the event being handled
  last_size,    \* thread -> _wait_for_file_ready's last_size
  polls,        \* thread -> sleeps done by _wait_for_file_ready
  waitres,      \* thread -> how _wait_for_file_ready ended
  outcome,      \* thread -> how the last on_created ended
  calls         \* path -> callback invocations so far: 0, 1, or 2 for more (history)

wvars == <<fexists, fsize, processing, pc, ev, last_size, polls, waitres,
           outcome, calls>>

\* What the last store operation was and returned.
slog == <<op, ret, last_write>>

svars == <<store, slog>>

rvars == <<rpc, rop, loaded, rret, stale, fbytes>>

cvars == <<cpc, cmd, crequest, approved, dirty, ucall, cexit, cupload, attempts>>

uvars == <<upc, uargs, ubody, response, chunks, attach, uresult, uexc>>

\* The variables of a function called on its own.
fvars == <<fcall, fret>>

evars == <<epc, eexts, eglob, evideo, einvoked, ecount>>

kvars == <<kpc, kqueue, kevent>>

\* The variables of the functions called on their own, of the scan for
\* existing videos and of the watch command.
yvars == <<fvars, evars, kvars>>

\* The variables of the concurrent store operations, the commands, the
\* uploader, the functions called on their own and the scan.
xvars == <<rvars, cvars, uvars, yvars>>

pvars == <<ppc, video_path, options, analysis, metadata, thumbnail, result,
           exc, upload_calls, create_calls, notify_calls, store0, runs,
           stages>>

vars == <<wvars, svars, pvars, xvars>>

\* The store before any request was created (no file: load returns {}).
EmptyStore == [id \in {} |-> Null]
NoArgs == <<>>
NoOp == [name |-> "none", id |-> "", was_key |-> FALSE, args |-> NoArgs,
         saved |-> FALSE]
NoWrite == [name |-> "none", request |-> Null]

StoreIdle ==
  /\ store = EmptyStore
  /\ op = NoOp
  /\ ret = Null
  /\ last_write = [id \in Ids |-> NoWrite]

PipelineIdle ==
  /\ ppc = "idle"
  /\ video_path = NonePath
  /\ options = NoOptions
  /\ analysis = Null
  /\ metadata = Null
  /\ thumbnail = Null
  /\ result = Null
  /\ exc = "none"
  /\ upload_calls = <<>>
  /\ create_calls = <<>>
  /\ notify_calls = <<>>
  /\ store0 = [id \in {} |-> Null]
  /\ runs = 0
  /\ stages = <<>>

NoRaceOp == [name |-> "none", id |-> "", request |-> Null]

RaceIdle ==
  /\ rpc = [pr \in Procs |-> "idle"]
  /\ rop = [pr \in Procs |-> NoRaceOp]
  /\ loaded = [pr \in Procs |-> Null]
  /\ rret = [pr \in Procs |-> Null]
  /\ stale = [pr \in Procs |-> {}]
  /\ fbytes = "whole"

NoCmd == [name |-> "none", id |-> ""]

NotCalled == [called |-> FALSE]

CliIdle ==
  /\ cpc = [pr \in Procs |-> "idle"]
  /\ cmd = [pr \in Procs |-> NoCmd]
  /\ crequest = [pr \in Procs |-> Null]
  /\ approved = [pr \in Procs |-> Null]
  /\ dirty = [pr \in Procs |-> FALSE]
  /\ ucall = [pr \in Procs |-> Null]
  /\ cexit = [pr \in Procs |-> Null]
  /\ cupload = [pr \in Procs |-> NotCalled]
  /\ attempts = [id \in Ids |-> 0]

UploaderIdle ==
  /\ upc = "idle"
  /\ uargs = Null
  /\ ubody = Null
  /\ response = Null
  /\ chunks = 0
  /\ attach = Null
  /\ uresult = Null
  /\ uexc = "none"

NoCall == [name |-> "none"]

FunctionIdle ==
  /\ fcall = NoCall
  /\ fret = Null

ScanIdle ==
  /\ epc = "idle"
  /\ eexts = {}
  /\ eglob = {}
  /\ evideo = NoneStr
  /\ einvoked = [n \in DirNames |-> 0]
  /\ ecount = 0

WatchIdle ==
  /\ kpc = "idle"
  /\ kqueue = {}
  /\ kevent = NoneStr

\* No concurrent store operation, no command, no upload and no scan is
\* running, and no function has been called on its own.
ExtraIdle ==
  RaceIdle /\ CliIdle /\ UploaderIdle /\ FunctionIdle /\ ScanIdle /\ WatchIdle

WatcherIdle ==
  /\ fexists = [p \in Paths |-> FALSE]
  /\ fsize = [p \in Paths |-> 0]
  /\ processing = {}
  /\ pc = [t \in Threads |-> "idle"]
  /\ ev = [t \in Threads |-> NoEvent]
  /\ last_size = [t \in Threads |-> -1]
  /\ polls = [t \in Threads |-> 0]
  /\ waitres = [t \in Threads |-> "none"]
  /\ outcome = [t \in Threads |-> "none"]
  /\ calls = [p \in Paths |-> 0]

(***************************************************************************)
(* Watcher: VideoHandler.                                                  *)
(***************************************************************************)
WatcherInit ==
  /\ WatcherIdle
  /\ StoreIdle
  /\ PipelineIdle
  /\ ExtraIdle

\* Another process creates, appends to or truncates a file of the folder.
EnvWrite(p, s) ==
  /\ UNCHANGED <<svars, pvars, xvars>>
  /\ ~(fexists[p] /\ fsize[p] = s)
  /\ fexists' = [fexists EXCEPT ![p] = TRUE]
  /\ fsize' = [fsize EXCEPT ![p] = s]
  /\ UNCHANGED <<processing, pc, ev, last_size, polls, waitres, outcome, calls>>

\* Another process removes a file of the folder.
EnvDelete(p) ==
  /\ UNCHANGED <<svars, pvars, xvars>>
  /\ fexists[p]
  /\ fexists' = [fexists EXCEPT ![p] = FALSE]
  /\ fsize' = [fsize EXCEPT ![p] = 0]
  /\ UNCHANGED <<processing, pc, ev, last_size, polls, waitres, outcome, calls>>

\* on_created returns (or raises) on thread t with the given outcome.
Leave(t, how) ==
  /\ pc' = [pc EXCEPT ![t] = "idle"]
  /\ ev' = [ev EXCEPT ![t] = NoEvent]
  /\ last_size' = [last_size EXCEPT ![t] = -1]
  /\ polls' = [polls EXCEPT ![t] = 0]
  /\ waitres' = [waitres EXCEPT ![t] = "none"]
  /\ outcome' = [outcome EXCEPT ![t] = how]

\* A variant of OnCreated without the test of the in-flight set.
OnCreatedNoInFlightTest(t, e) ==
  /\ UNCHANGED <<svars, pvars, xvars>>
  /\ pc[t] = "idle"
  /\ IF e.is_directory
       THEN Leave(t, "ignored_directory")
     ELSE IF Lower(Suffix(e.src_path)) \notin VIDEO_EXTENSIONS
       THEN Leave(t, "ignored_extension")
     ELSE /\ pc' = [pc EXCEPT ![t] = "wait_exists"]
          /\ ev' = [ev EXCEPT ![t] = e]
          /\ last_size' = [last_size EXCEPT ![t] = -1]
          /\ polls' = [polls EXCEPT ![t] = 0]
          /\ waitres' = [waitres EXCEPT ![t] = "none"]
          /\ outcome' = [outcome EXCEPT ![t] = "none"]
  /\ UNCHANGED <<fexists, fsize, processing, calls>>

\* on_created, lines 30-43: the filters, the in-flight check, and the entry
\* into _wait_for_file_ready (start_time taken, last_size = -1).
OnCreated(t, e) ==
  /\ UNCHANGED <<svars, pvars, xvars>>
  /\ pc[t] = "idle"
  /\ IF e.is_directory
       THEN Leave(t, "ignored_directory")
     ELSE IF Lower(Suffix(e.src_path)) \notin VIDEO_EXTENSIONS
       THEN Leave(t, "ignored_extension")
     ELSE IF e.src_path \in processing
       THEN Leave(t, "dropped")
     ELSE /\ pc' = [pc EXCEPT ![t] = "wait_exists"]
          /\ ev' = [ev EXCEPT ![t] = e]
          /\ last_size' = [last_size EXCEPT ![t] = -1]
          /\ polls' = [polls EXCEPT ![t] = 0]
          /\ waitres' = [waitres EXCEPT ![t] = "none"]
          /\ outcome' = [outcome EXCEPT ![t] = "none"]
  /\ UNCHANGED <<fexists, fsize, processing, calls>>

\* _wait_for_file_ready, lines 69-71 and 82: the loop test and path.exists().
WaitExists(t) ==
  /\ UNCHANGED <<svars, pvars, xvars>>
  /\ pc[t] = "wait_exists"
  /\ IF polls[t] >= MaxPolls
       THEN /\ waitres' = [waitres EXCEPT ![t] = "timeout"]
            /\ pc' = [pc EXCEPT ![t] = "exists"]
     ELSE IF ~fexists[ev[t].src_path]
       THEN /\ waitres' = [waitres EXCEPT ![t] = "missing"]
            /\ pc' = [pc EXCEPT ![t] = "exists"]
     ELSE /\ pc' = [pc EXCEPT ![t] = "wait_stat"]
          /\ UNCHANGED waitres
  /\ UNCHANGED <<fexists, fsize, processing, ev, last_size, polls, outcome, calls>>

\* _wait_for_file_ready, lines 73-80: stat, the stability test, the sleep.
\* path.stat() raises FileNotFoundError when the file vanished after exists().
WaitStat(t) ==
  /\ UNCHANGED <<svars, pvars, xvars>>
  /\ pc[t] = "wait_stat"
  /\ LET p == ev[t].src_path
         current_size == fsize[p]
     IN IF ~fexists[p]
          THEN Leave(t, "raised_stat")
        ELSE IF current_size = last_size[t] /\ current_size > 0
          THEN /\ waitres' = [waitres EXCEPT ![t] = "ready"]
               /\ pc' = [pc EXCEPT ![t] = "exists"]
               /\ UNCHANGED <<ev, last_size, polls, outcome>>
        ELSE /\ last_size' = [last_size EXCEPT ![t] = current_size]
             /\ polls' = [polls EXCEPT ![t] = polls[t] + 1]
             /\ pc' = [pc EXCEPT ![t] = "wait_exists"]
             /\ UNCHANGED <<ev, waitres, outcome>>
  /\ UNCHANGED <<fexists, fsize, processing, calls>>

\* on_created, lines 45-52: the result of the wait is not looked at; the
\* existence check, the add to _processing and the call of the callback.
ExistsCheck(t) ==
  /\ UNCHANGED <<svars, pvars, xvars>>
  /\ pc[t] = "exists"
  /\ LET p == ev[t].src_path
     IN IF ~fexists[p]
          THEN /\ Leave(t, "no_file")
               /\ UNCHANGED <<processing, calls>>
          ELSE /\ processing' = processing \cup {p}
               /\ calls' = [calls EXCEPT ![p] = IF calls[p] < 2 THEN calls[p] + 1 ELSE 2]
               /\ pc' = [pc EXCEPT ![t] = "callback"]
               /\ UNCHANGED <<ev, last_size, polls, waitres, outcome>>
  /\ UNCHANGED <<fexists, fsize>>

\* A variant of CallbackEnd without the finally clause: the path is
\* discarded only when the callback returns.
CallbackEndNoFinally(t, how) ==
  /\ UNCHANGED <<svars, pvars, xvars>>
  /\ pc[t] = "callback"
  /\ processing' = IF how = "raised"
                     THEN processing
                     ELSE processing \ {ev[t].src_path}
  /\ Leave(t, how)
  /\ UNCHANGED <<fexists, fsize, calls>>

\* on_created, lines 52-54: the callback ends, by returning or by raising;
\* the finally clause discards the path either way.
CallbackEnd(t, how) ==
  /\ UNCHANGED <<svars, pvars, xvars>>
  /\ pc[t] = "callback"
  /\ processing' = processing \ {ev[t].src_path}
  /\ Leave(t, how)
  /\ UNCHANGED <<fexists, fsize, calls>>

WatcherNext ==
  \/ \E p \in PolledPaths, s \in 0..MaxSize : EnvWrite(p, s)
  \/ \E p \in PolledPaths : EnvDelete(p)
  \/ \E t \in Threads, e \in Events : OnCreated(t, e)
  \/ \E t \in Threads : WaitExists(t)
  \/ \E t \in Threads : WaitStat(t)
  \/ \E t \in Threads : ExistsCheck(t)
  \/ \E t \in Threads, how \in {"returned", "raised"} : CallbackEnd(t, how)

SpecWatcher == WatcherInit /\ [][WatcherNext]_vars

(***************************************************************************)
(* Watcher: process_existing_videos, the scan for videos that are in the   *)
(* folder already; one glob, one callback invocation or one callback end   *)
(* per step.  The folder is as it is when the scan is called.              *)
(***************************************************************************)
\* A variant of GlobMatches that compares without regard to case.
GlobMatchesAnyCase(name, ext) == Lower(Suffix(name)) = ext

\* watch_path.glob(f"*{ext}") yields the entry: its name ends with ext,
\* letter for letter (pathlib matches case-sensitively on POSIX).
GlobMatches(name, ext) == Suffix(name) = ext

\* The folder a scan finds.
Folders ==
  {[exists |-> FALSE, names |-> {}]}
    \cup [exists : {TRUE}, names : SUBSET DirNames]

\* process_existing_videos is called, lines 136-142: a folder that does not
\* exist returns 0.
ScanStart(folder) ==
  /\ epc \in {"idle", "returned", "raised"}
  /\ fcall' = [name |-> "process_existing_videos", folder |-> folder]
  /\ einvoked' = [n \in DirNames |-> 0]
  /\ ecount' = 0
  /\ evideo' = NoneStr
  /\ eglob' = {}
  /\ IF ~folder.exists
       THEN /\ epc' = "returned"
            /\ fret' = 0
            /\ eexts' = {}
       ELSE /\ epc' = "loop"
            /\ fret' = Null
            /\ eexts' = VIDEO_EXTENSIONS
  /\ UNCHANGED <<kvars, wvars, svars, pvars, rvars, cvars, uvars>>

\* Lines 143-144: the outer loop takes the next extension (a set has no
\* fixed order) and globs the folder for it.
ScanGlob(ext) ==
  /\ epc = "loop"
  /\ eglob = {}
  /\ ext \in eexts
  /\ eexts' = eexts \ {ext}
  /\ eglob' = {name \in fcall.folder.names : GlobMatches(name, ext)}
  /\ UNCHANGED <<fvars, epc, evideo, einvoked, ecount, kvars,
                 wvars, svars, pvars, rvars, cvars, uvars>>

\* Lines 144-146: the glob yields an entry (in the order of the file
\* system) and the callback is called for it.
ScanInvoke(name) ==
  /\ epc = "loop"
  /\ name \in eglob
  /\ eglob' = eglob \ {name}
  /\ evideo' = name
  /\ einvoked' = [einvoked EXCEPT ![name] = @ + 1]
  /\ epc' = "callback"
  /\ UNCHANGED <<fvars, eexts, ecount, kvars, wvars, svars, pvars, rvars, cvars,
                 uvars>>

\* Lines 146-147: the callback returns and is counted, or raises, which
\* nothing in process_existing_videos catches.
ScanCallbackEnd(how) ==
  /\ epc = "callback"
  /\ evideo' = NoneStr
  /\ IF how = "returned"
       THEN /\ ecount' = ecount + 1
            /\ epc' = "loop"
            /\ UNCHANGED fret
       ELSE /\ epc' = "raised"
            /\ fret' = [raised |-> "callback"]
            /\ UNCHANGED ecount
  /\ UNCHANGED <<fcall, eexts, eglob, einvoked, kvars,
                 wvars, svars, pvars, rvars, cvars, uvars>>

\* Line 149: both loops are done, the count is returned.
ScanReturn ==
  /\ epc = "loop"
  /\ eglob = {}
  /\ eexts = {}
  /\ epc' = "returned"
  /\ fret' = ecount
  /\ UNCHANGED <<fcall, eexts, eglob, evideo, einvoked, ecount, kvars,
                 wvars, svars, pvars, rvars, cvars, uvars>>

ScanInit ==
  /\ WatcherIdle
  /\ StoreIdle
  /\ PipelineIdle
  /\ ExtraIdle

ScanNext ==
  \/ \E folder \in Folders : ScanStart(folder)
  \/ \E ext \in VIDEO_EXTENSIONS : ScanGlob(ext)
  \/ \E name \in DirNames : ScanInvoke(name)
  \/ \E how \in {"returned", "raised"} : ScanCallbackEnd(how)
  \/ ScanReturn

SpecScan == ScanInit /\ [][ScanNext]_vars

(***************************************************************************)
(* Scan for existing videos: claims.                                       *)
(***************************************************************************)
\* The entry names of the model whose extension, as written, is one of the
\* allow-list.
ListedNames == {"a.mp4", "c.mov"}

WatchCommand ==
  /\ kpc = "idle"
  /\ epc = "idle"
  /\ kpc' = "existing"
  /\ UNCHANGED <<kqueue, kevent, fvars, evars, wvars, svars, pvars, rvars, cvars,
                 uvars>>

\* cli.py line 120: process_existing_videos is called on the folder.
WatchScanStart ==
  /\ kpc = "existing"
  /\ epc = "idle"
  /\ ScanStart([exists |-> TRUE, names |-> {}])

\* watcher.py lines 143-144 with the folder as it is when the glob for the
\* extension starts: glob lists the folder then, not when the scan is
\* called.
WatchGlob(ext) ==
  /\ kpc = "existing"
  /\ epc = "loop"
  /\ eglob = {}
  /\ ext \in eexts
  /\ eexts' = eexts \ {ext}
  /\ eglob' = {name \in Paths : fexists[name] /\ GlobMatches(name, ext)}
  /\ UNCHANGED <<fvars, epc, evideo, einvoked, ecount, kvars,
                 wvars, svars, pvars, rvars, cvars, uvars>>

\* cli.py lines 121-124 and watch_folder lines 107-110: the scan has
\* returned, the handler is made and the observer is started.
ObserverStart ==
  /\ kpc = "existing"
  /\ epc = "returned"
  /\ kpc' = "observe"
  /\ UNCHANGED <<kqueue, kevent, fvars, evars, wvars, svars, pvars, rvars, cvars,
                 uvars>>

\* Another process puts a complete file into the folder; a running
\* observer queues a created event for it.
FileCreated(p) ==
  /\ ~fexists[p]
  /\ fexists' = [fexists EXCEPT ![p] = TRUE]
  /\ fsize' = [fsize EXCEPT ![p] = 1]
  /\ kqueue' = IF kpc = "observe" THEN kqueue \cup {p} ELSE kqueue
  /\ UNCHANGED <<kpc, kevent, processing, pc, ev, last_size, polls, waitres,
                 outcome, calls, fvars, evars, svars, pvars, rvars, cvars, uvars>>

\* The observer thread takes an event from its queue.
ObserverTake(t, p) ==
  /\ kpc = "observe"
  /\ kevent = NoneStr
  /\ p \in kqueue
  /\ pc[t] = "idle"
  /\ kqueue' = kqueue \ {p}
  /\ kevent' = p
  /\ outcome' = [outcome EXCEPT ![t] = "none"]
  /\ UNCHANGED <<kpc, fexists, fsize, processing, pc, ev, last_size, polls,
                 waitres, calls, fvars, evars, svars, pvars, rvars, cvars, uvars>>

\* The observer thread calls on_created for the event it took.
ObserverDispatch(t) ==
  /\ kevent # NoneStr
  /\ outcome[t] = "none"
  /\ OnCreated(t, [src_path |-> kevent, is_directory |-> FALSE])

\* on_created has returned; the observer thread goes back to its queue.
ObserverDispatched(t) ==
  /\ kevent # NoneStr
  /\ pc[t] = "idle"
  /\ outcome[t] # "none"
  /\ kevent' = NoneStr
  /\ UNCHANGED <<kpc, kqueue, wvars, fvars, evars, svars, pvars, rvars, cvars,
                 uvars>>

\* The steps of the command and of its observer thread.
WatchStep ==
  \/ WatchScanStart
  \/ \E ext \in VIDEO_EXTENSIONS : WatchGlob(ext)
  \/ \E name \in DirNames : kpc = "existing" /\ ScanInvoke(name)
  \/ kpc = "existing" /\ ScanCallbackEnd("returned")
  \/ kpc = "existing" /\ ScanReturn
  \/ ObserverStart
  \/ \E p \in PolledPaths : ObserverTake("t1", p)
  \/ ObserverDispatch("t1")
  \/ kpc = "observe" /\ WaitExists("t1")
  \/ kpc = "observe" /\ WaitStat("t1")
  \/ kpc = "observe" /\ ExistsCheck("t1")
  \/ kpc = "observe" /\ CallbackEnd("t1", "returned")
  \/ ObserverDispatched("t1")

WatchNext ==
  \/ WatchCommand
  \/ \E p \in PolledPaths : FileCreated(p)
  \/ WatchStep

\* The positions of the command, of its scan and of its observer thread:
\* every step of them changes one.
WatchPositions == <<kpc, kevent, epc, eexts, pc, outcome>>

\* The command and its observer thread keep running.
SpecWatchCommand ==
  ScanInit /\ [][WatchNext]_vars /\ WF_WatchPositions(WatchStep)

\* C38: with the watch command run with --existing, every video file of
\* the folder, whether it was there when the command started or appeared
\* later, during the scan or after it, is eventually passed to the
\* callback, by the scan or by the handler.
C38_EveryVideoReachesCallback ==
  \A p \in PolledPaths :
     (kpc # "idle" /\ fexists[p]) ~> (einvoked[p] >= 1 \/ calls[p] >= 1)

(***************************************************************************)
(* Approval store (approval.py).  Every operation loads the whole mapping, *)
(* changes it in memory and saves the whole mapping.                       *)
(***************************************************************************)
\* What json.load raises on a text that is not a JSON document.
JSONDecodeError == [raised |-> "json.JSONDecodeError"]

\* load_pending_requests: the mapping in the file, {} when there is no
\* file; json.load raises on an empty file and on a proper prefix of a
\* JSON text.
load_pending_requests ==
  IF fbytes = "whole" THEN store ELSE JSONDecodeError

\* save_pending_requests: the file holds the given mapping afterwards.
save_pending_requests(requests) == store' = requests

\* requests[key] = value on a Python dict.
DictSet(requests, key, value) ==
  [k \in DOMAIN requests \cup {key} |-> IF k = key THEN value ELSE requests[k]]

\* A variant of RequestRecord that stores no tags.
RequestRecordNoTags(request_id, vp, md, tp, created_at) ==
  [request_id |-> request_id,
   video_path |-> PathStr(vp),
   title |-> md.title,
   description |-> md.description,
   tags |-> <<>>,
   category_id |-> md.category_id,
   thumbnail_path |-> PathStr(tp),
   created_at |-> created_at,
   status |-> "pending"]

\* The dict create_approval_request writes under the new identifier.
RequestRecord(request_id, vp, md, tp, created_at) ==
  [request_id |-> request_id,
   video_path |-> PathStr(vp),
   title |-> md.title,
   description |-> md.description,
   tags |-> md.tags,
   category_id |-> md.category_id,
   thumbnail_path |-> PathStr(tp),
   created_at |-> created_at,
   status |-> "pending"]

\* A variant of create_approval_request that returns the request without
\* saving the mapping.
create_without_save(uuid, now, vp, md, tp) ==
  /\ UNCHANGED <<store, last_write>>
  /\ op' = [name |-> "create", id |-> uuid, was_key |-> uuid \in DOMAIN store,
            args |-> NoArgs, saved |-> FALSE]
  /\ ret' = [request_id |-> uuid, video_path |-> vp, metadata |-> md,
             thumbnail_path |-> tp, created_at |-> now, status |-> "pending"]

\* create_approval_request; uuid is the value of str(uuid.uuid4())[:8] and
\* now the value of datetime.now().isoformat() in this call.
create_approval_request(uuid, now, vp, md, tp) ==
  LET request_id == uuid
      request == [request_id |-> request_id, video_path |-> vp,
                  metadata |-> md, thumbnail_path |-> tp,
                  created_at |-> now, status |-> "pending"]
      requests == load_pending_requests
  IN /\ save_pending_requests(
          DictSet(requests, request_id,
                  RequestRecord(request_id, vp, md, tp, request.created_at)))
     /\ op' = [name |-> "create", id |-> request_id,
               was_key |-> request_id \in DOMAIN requests,
               args |-> NoArgs, saved |-> TRUE]
     /\ last_write' = [last_write EXCEPT ![request_id] =
                         [name |-> "create", request |-> request]]
     /\ ret' = request

\* A variant of SetStatus that writes the mapping back also when the
\* identifier is not in it.
SetStatusSaveAlways(name, request_id, status) ==
  LET requests == load_pending_requests
  IN /\ op' = [name |-> name, id |-> request_id,
               was_key |-> request_id \in DOMAIN requests,
               args |-> NoArgs, saved |-> TRUE]
     /\ IF request_id \notin DOMAIN requests
          THEN /\ save_pending_requests(requests)
               /\ ret' = Null
               /\ UNCHANGED last_write
          ELSE LET changed == [requests EXCEPT ![request_id].status = status]
               IN /\ save_pending_requests(changed)
                  /\ last_write' = [last_write EXCEPT ![request_id] =
                                      [name |-> name, request |-> Null]]
                  /\ ret' = changed[request_id]

\* approve_request / reject_request: set the status, whatever it was.
SetStatus(name, request_id, status) ==
  LET requests == load_pending_requests
  IN /\ op' = [name |-> name, id |-> request_id,
               was_key |-> request_id \in DOMAIN requests,
               args |-> NoArgs, saved |-> request_id \in DOMAIN requests]
     /\ IF request_id \notin DOMAIN requests
          THEN /\ ret' = Null
               /\ UNCHANGED <<store, last_write>>
          ELSE LET changed == [requests EXCEPT ![request_id].status = status]
               IN /\ save_pending_requests(changed)
                  /\ last_write' = [last_write EXCEPT ![request_id] =
                                      [name |-> name, request |-> Null]]
                  /\ ret' = changed[request_id]

approve_request(request_id) == SetStatus("approve", request_id, "approved")

reject_request(request_id) == SetStatus("reject", request_id, "rejected")

\* A variant of update_request_metadata that replaces the title with
\* whatever it was given.
update_title_always(request_id, title, description, tags) ==
  LET requests == load_pending_requests
  IN /\ op' = [name |-> "update", id |-> request_id,
               was_key |-> request_id \in DOMAIN requests,
               args |-> [title |-> title, description |-> description,
                         tags |-> tags],
               saved |-> request_id \in DOMAIN requests]
     /\ IF request_id \notin DOMAIN requests
          THEN /\ ret' = Null
               /\ UNCHANGED <<store, last_write>>
          ELSE LET r0 == requests[request_id]
                   r1 == [r0 EXCEPT !.title = title]
                   r2 == IF TruthyStr(description)
                           THEN [r1 EXCEPT !.description = description] ELSE r1
                   r3 == IF TruthyList(tags) THEN [r2 EXCEPT !.tags = tags] ELSE r2
                   changed == [requests EXCEPT ![request_id] = r3]
               IN /\ save_pending_requests(changed)
                  /\ last_write' = [last_write EXCEPT ![request_id] =
                                      [name |-> "update", request |-> Null]]
                  /\ ret' = changed[request_id]

\* update_request_metadata: only truthy arguments replace a field.
update_request_metadata(request_id, title, description, tags) ==
  LET requests == load_pending_requests
  IN /\ op' = [name |-> "update", id |-> request_id,
               was_key |-> request_id \in DOMAIN requests,
               args |-> [title |-> title, description |-> description,
                         tags |-> tags],
               saved |-> request_id \in DOMAIN requests]
     /\ IF request_id \notin DOMAIN requests
          THEN /\ ret' = Null
               /\ UNCHANGED <<store, last_write>>
          ELSE LET r0 == requests[request_id]
                   r1 == IF TruthyStr(title) THEN [r0 EXCEPT !.title = title] ELSE r0
                   r2 == IF TruthyStr(description)
                           THEN [r1 EXCEPT !.description = description] ELSE r1
                   r3 == IF TruthyList(tags) THEN [r2 EXCEPT !.tags = tags] ELSE r2
                   changed == [requests EXCEPT ![request_id] = r3]
               IN /\ save_pending_requests(changed)
                  /\ last_write' = [last_write EXCEPT ![request_id] =
                                      [name |-> "update", request |-> Null]]
                  /\ ret' = changed[request_id]

\* get_request: requests.get(request_id).
get_request(request_id) ==
  LET requests == load_pending_requests
  IN /\ op' = [name |-> "get", id |-> request_id,
               was_key |-> request_id \in DOMAIN requests,
               args |-> NoArgs, saved |-> FALSE]
     /\ ret' = IF request_id \in DOMAIN requests THEN requests[request_id] ELSE Null
     /\ UNCHANGED <<store, last_write>>

\* A variant of list_pending that returns every record of the mapping.
list_all ==
  LET requests == load_pending_requests
  IN /\ op' = [name |-> "list", id |-> "", was_key |-> FALSE,
               args |-> NoArgs, saved |-> FALSE]
     /\ ret' = {requests[k] : k \in DOMAIN requests}
     /\ UNCHANGED <<store, last_write>>

\* list_pending: the records whose status is pending (the order of the list
\* is the mapping's and carries no meaning: the records, as a set).
list_pending ==
  LET requests == load_pending_requests
  IN /\ op' = [name |-> "list", id |-> "", was_key |-> FALSE,
               args |-> NoArgs, saved |-> FALSE]
     /\ ret' = {requests[k] : k \in {i \in DOMAIN requests : requests[i].status = "pending"}}
     /\ UNCHANGED <<store, last_write>>

\* One store operation, called from a command or a test, on its own.
Create(uuid, now, vp, md, tp) ==
  /\ create_approval_request(uuid, now, vp, md, tp)
  /\ UNCHANGED <<wvars, pvars, xvars>>

Approve(request_id) == approve_request(request_id) /\ UNCHANGED <<wvars, pvars, xvars>>

Reject(request_id) == reject_request(request_id) /\ UNCHANGED <<wvars, pvars, xvars>>

Update(request_id, title, description, tags) ==
  /\ update_request_metadata(request_id, title, description, tags)
  /\ UNCHANGED <<wvars, pvars, xvars>>

Get(request_id) == get_request(request_id) /\ UNCHANGED <<wvars, pvars, xvars>>

ListPending == list_pending /\ UNCHANGED <<wvars, pvars, xvars>>

StoreInit ==
  /\ WatcherIdle
  /\ StoreIdle
  /\ PipelineIdle
  /\ ExtraIdle

StoreNext ==
  \/ \E uuid \in Ids, now \in Times, v \in VideoPaths, m \in Metadatas :
        Create(uuid, now, v, m, ThumbnailPath)
  \/ \E id \in Ids : Approve(id)
  \/ \E id \in Ids : Reject(id)
  \/ \E id \in Ids, t \in TitleArgs, d \in DescriptionArgs, g \in TagsArgs :
        Update(id, t, d, g)
  \/ \E id \in Ids : Get(id)
  \/ ListPending

SpecStore == StoreInit /\ [][StoreNext]_vars

(***************************************************************************)
(* Approval store under concurrency: each process runs one store operation *)
(* at a time; another process may run between an operation's load (the     *)
(* file is read and closed) and its save (the file is rewritten).          *)
(***************************************************************************)
\* A variant of WorkingCopy in which the operation takes the mapping from
\* the file again when it saves.
WorkingCopyReloaded(pr) == store

\* The mapping an operation changes and saves: the one it loaded.
WorkingCopy(pr) == loaded[pr]

\* The first part of an operation, up to and including load_pending_requests
\* (create: lines 57-68, the identifier and the request object are made
\* before the load; approve / reject: lines 164 and 177).
RaceLoad(pr, name, request_id, request) ==
  /\ rpc[pr] = "idle"
  /\ rpc' = [rpc EXCEPT ![pr] = "loaded"]
  /\ rop' = [rop EXCEPT ![pr] = [name |-> name, id |-> request_id,
                                  request |-> request]]
  /\ loaded' = [loaded EXCEPT ![pr] = load_pending_requests]
  /\ rret' = [rret EXCEPT ![pr] = Null]
  /\ stale' = [stale EXCEPT ![pr] = {}]
  /\ UNCHANGED <<fbytes, store, slog, wvars, pvars, cvars, uvars, yvars>>

\* A store operation after its load, on the mapping `requests` it loaded:
\* whether it writes the file, with what, and what it returns
\* (create_approval_request lines 69-82, approve_request 165-172,
\* reject_request 178-185, update_request_metadata 197-209, get_request 215).
StoreCall(requests, o) ==
  IF o.name = "create"
    THEN [wrote |-> TRUE,
          mapping |-> DictSet(requests, o.id,
                              RequestRecord(o.id, o.request.video_path,
                                            o.request.metadata,
                                            o.request.thumbnail_path,
                                            o.request.created_at)),
          returned |-> o.request]
  ELSE IF o.id \notin DOMAIN requests
    THEN [wrote |-> FALSE, mapping |-> requests, returned |-> Null]
  ELSE IF o.name = "get"
    THEN [wrote |-> FALSE, mapping |-> requests, returned |-> requests[o.id]]
  ELSE IF o.name = "update"
    THEN LET r0 == requests[o.id]
             r1 == IF TruthyStr(o.args.title)
                     THEN [r0 EXCEPT !.title = o.args.title] ELSE r0
             r2 == IF TruthyStr(o.args.description)
                     THEN [r1 EXCEPT !.description = o.args.description] ELSE r1
             r3 == IF TruthyList(o.args.tags)
                     THEN [r2 EXCEPT !.tags = o.args.tags] ELSE r2
             changed == [requests EXCEPT ![o.id] = r3]
         IN [wrote |-> TRUE, mapping |-> changed, returned |-> changed[o.id]]
  ELSE LET changed ==
             [requests EXCEPT ![o.id].status =
                IF o.name = "approve" THEN "approved" ELSE "rejected"]
       IN [wrote |-> TRUE, mapping |-> changed, returned |-> changed[o.id]]

\* The rest of the operation: the change in memory, save_pending_requests
\* and the return.
RaceSave(pr) ==
  /\ rpc[pr] = "loaded"
  /\ LET out == StoreCall(WorkingCopy(pr), rop[pr])
     IN /\ IF out.wrote
             THEN save_pending_requests(out.mapping)
             ELSE UNCHANGED store
        /\ rret' = [rret EXCEPT ![pr] = out.returned]
        /\ stale' = [r \in Procs |->
                       IF out.wrote /\ r # pr /\ rpc[r] = "loaded"
                         THEN stale[r] \cup {pr}
                         ELSE stale[r]]
  /\ rpc' = [rpc EXCEPT ![pr] = "idle"]
  /\ loaded' = [loaded EXCEPT ![pr] = Null]
  /\ UNCHANGED <<fbytes, rop, slog, wvars, pvars, cvars, uvars, yvars>>

RaceInit ==
  /\ WatcherIdle
  /\ StoreIdle
  /\ PipelineIdle
  /\ ExtraIdle

RaceNext ==
  \/ \E pr \in Procs, uuid \in Ids, now \in Times, v \in VideoPaths :
        RaceLoad(pr, "create", uuid,
                 [request_id |-> uuid, video_path |-> v,
                  metadata |-> GeneratedMetadata,
                  thumbnail_path |-> ThumbnailPath, created_at |-> now,
                  status |-> "pending"])
  \/ \E pr \in Procs, name \in {"approve", "reject"}, id \in Ids :
        RaceLoad(pr, name, id, Null)
  \/ \E pr \in Procs : RaceSave(pr)

SpecRace == RaceInit /\ [][RaceNext]_vars

(***************************************************************************)
(* Approval store: the file while it is written.  save_pending_requests    *)
(* opens the file with mode "w", which empties it, json.dump writes the    *)
(* text in pieces through a buffer, and leaving the with block flushes and *)
(* closes it.  One process writes at a time; the others load, and the      *)
(* writer may die before it closes the file.                               *)
(***************************************************************************)
\* No process is between the open and the close of the file.
NoWriter == \A q \in Procs : rpc[q] # "writing"

\* An operation starts: load_pending_requests (lines 34-38) returns the
\* mapping or raises, which ends the operation.
FileLoad(pr, name, request_id, request) ==
  /\ rpc[pr] = "idle"
  /\ rop' = [rop EXCEPT ![pr] = [name |-> name, id |-> request_id,
                                  request |-> request]]
  /\ stale' = [stale EXCEPT ![pr] = {}]
  /\ LET requests == load_pending_requests
     IN IF requests = JSONDecodeError
          THEN /\ rret' = [rret EXCEPT ![pr] = JSONDecodeError]
               /\ UNCHANGED <<rpc, loaded>>
          ELSE /\ rpc' = [rpc EXCEPT ![pr] = "loaded"]
               /\ loaded' = [loaded EXCEPT ![pr] = requests]
               /\ rret' = [rret EXCEPT ![pr] = Null]
  /\ UNCHANGED <<fbytes, store, slog, wvars, pvars, cvars, uvars, yvars>>

\* An operation that saves nothing returns (approve_request line 167,
\* get_request line 215).
FileReturn(pr) ==
  /\ rpc[pr] = "loaded"
  /\ LET out == StoreCall(loaded[pr], rop[pr])
     IN /\ ~out.wrote
        /\ rret' = [rret EXCEPT ![pr] = out.returned]
  /\ rpc' = [rpc EXCEPT ![pr] = "idle"]
  /\ loaded' = [loaded EXCEPT ![pr] = Null]
  /\ UNCHANGED <<fbytes, rop, stale, store, slog, wvars, pvars, cvars, uvars, yvars>>

\* save_pending_requests line 44: open(path, "w") leaves the file empty.
FileOpen(pr) ==
  /\ rpc[pr] = "loaded"
  /\ NoWriter
  /\ StoreCall(loaded[pr], rop[pr]).wrote
  /\ fbytes' = "empty"
  /\ rpc' = [rpc EXCEPT ![pr] = "writing"]
  /\ UNCHANGED <<rop, loaded, rret, stale, store, slog, wvars, pvars, cvars,
                 uvars, yvars>>

\* Line 45: json.dump has filled the buffer and a first part of the text is
\* in the file (a text shorter than the buffer reaches the file at the
\* close only).
FileDump(pr) ==
  /\ rpc[pr] = "writing"
  /\ fbytes = "empty"
  /\ fbytes' = "partial"
  /\ UNCHANGED <<rpc, rop, loaded, rret, stale, store, slog, wvars, pvars,
                 cvars, uvars, yvars>>

\* The with block is left: the rest of the text is flushed, the file holds
\* the new mapping, and the operation returns.
FileClose(pr) ==
  /\ rpc[pr] = "writing"
  /\ LET out == StoreCall(loaded[pr], rop[pr])
     IN /\ save_pending_requests(out.mapping)
        /\ rret' = [rret EXCEPT ![pr] = out.returned]
  /\ fbytes' = "whole"
  /\ stale' = [r \in Procs |->
                 IF r # pr /\ rpc[r] = "loaded" THEN stale[r] \cup {pr}
                                                ELSE stale[r]]
  /\ rpc' = [rpc EXCEPT ![pr] = "idle"]
  /\ loaded' = [loaded EXCEPT ![pr] = Null]
  /\ UNCHANGED <<rop, slog, wvars, pvars, cvars, uvars, yvars>>

\* The writer dies between the open and the close: the file keeps what had
\* reached it.
FileCrash(pr) ==
  /\ rpc[pr] = "writing"
  /\ rpc' = [rpc EXCEPT ![pr] = "crashed"]
  /\ UNCHANGED <<fbytes, rop, loaded, rret, stale, store, slog, wvars, pvars,
                 cvars, uvars, yvars>>

FileNext ==
  \/ \E pr \in Procs, uuid \in Ids, now \in Times, v \in VideoPaths :
        FileLoad(pr, "create", uuid,
                 [request_id |-> uuid, video_path |-> v,
                  metadata |-> GeneratedMetadata,
                  thumbnail_path |-> ThumbnailPath, created_at |-> now,
                  status |-> "pending"])
  \/ \E pr \in Procs, name \in {"approve", "get"}, id \in Ids :
        FileLoad(pr, name, id, Null)
  \/ \E pr \in Procs : FileReturn(pr)
  \/ \E pr \in Procs : FileOpen(pr)
  \/ \E pr \in Procs : FileDump(pr)
  \/ \E pr \in Procs : FileClose(pr)
  \/ \E pr \in Procs : FileCrash(pr)

SpecFile == RaceInit /\ [][FileNext]_vars

(***************************************************************************)
(* Approval store under concurrency: claims.                               *)
(***************************************************************************)
\* Process pr calls load_pending_requests in this step.
Loads(pr) ==
  /\ rpc[pr] = "idle"
  /\ \/ rpc'[pr] = "loaded"
     \/ rret'[pr] = JSONDecodeError /\ rret[pr] # JSONDecodeError

\* The mappings a save has begun to write and not finished.
BeingWritten ==
  {StoreCall(loaded[w], rop[w]).mapping :
      w \in {q \in Procs : rpc[q] \in {"writing", "crashed"}}}

\* C37: a load_pending_requests made at any moment, also while another
\* process is between the open and the close of the file or has died
\* there, returns a whole mapping: the one the file held before that save
\* or the one the save writes.
C37_LoadSeesWholeMapping ==
  [][\A pr \in Procs :
        Loads(pr) => /\ rpc'[pr] = "loaded"
                     /\ loaded'[pr] \in {store} \cup BeingWritten]_vars

\* Process q is writing the file in this step.
RaceWrites(q) ==
  /\ rpc[q] = "loaded"
  /\ rpc'[q] = "idle"
  /\ StoreCall(loaded[q], rop[q]).wrote

\* C12: when two processes run operations on different identifiers and both
\* loaded before either saved, the last writer wins: after the second save
\* the file holds, for the first writer's identifier, what the second writer
\* had loaded (the record as it was before the first writer's update, or no
\* record), while the first writer still holds the record it returned.
C12_LastWriterWins ==
  [][\A p \in Procs, q \in Procs :
       (/\ p # q
        /\ RaceWrites(q)
        /\ p \in stale[q]
        /\ rpc[p] = "idle"
        /\ rret[p] # Null
        /\ rop[p].id # rop[q].id)
       => /\ IF rop[p].id \in DOMAIN loaded[q]
               THEN /\ rop[p].id \in DOMAIN store'
                    /\ store'[rop[p].id] = loaded[q][rop[p].id]
               ELSE rop[p].id \notin DOMAIN store'
          /\ rret'[p] = rret[p]]_vars

\* Two approve operations on different pending identifiers have finished,
\* the second writer had loaded before the first saved, and the file shows
\* the first writer's request as pending although its call returned the
\* record as approved.
C12_Witness ==
  \E p \in Procs, q \in Procs :
     /\ p # q
     /\ rpc[p] = "idle"
     /\ rpc[q] = "idle"
     /\ rop[p].name = "approve"
     /\ rop[q].name = "approve"
     /\ rop[p].id # rop[q].id
     /\ p \in stale[q]
     /\ rret[p] # Null
     /\ rret[p].status = "approved"
     /\ rret[q] # Null
     /\ rop[p].id \in DOMAIN store
     /\ store[rop[p].id].status = "pending"
     /\ store[rop[q].id].status = "approved"

(***************************************************************************)
(* Approval store: claims.                                                 *)
(***************************************************************************)
\* C5: create_approval_request never returns an identifier that is already a
\* key of the store, so it never overwrites an existing record and two create
\* calls never yield the same identifier.
C5_CreateReturnsFreshId ==
  op.name = "create" => ~op.was_key

Resolved == {"approved", "rejected"}

\* C6: over any sequence of store operations, a record whose status has become
\* approved or rejected never has status pending again, and a metadata update
\* never changes a record's status.
C6_ResolvedNeverPendingAgain ==
  [][/\ \A id \in DOMAIN store :
          store[id].status \in Resolved
            => (id \in DOMAIN store' /\ store'[id].status # "pending")
     /\ op'.name = "update"
          => \A id \in DOMAIN store : store'[id].status = store[id].status]_vars

\* C13: when get_request(id) is called and the last operation that wrote the
\* record of id was the create that returned id, it returns a record with
\* status pending whose video path, title, description, tags, category and
\* thumbnail path are the values given to that create (the paths as text).
C13_CreateThenGet ==
  (op.name = "get" /\ last_write[op.id].name = "create") =>
     LET submitted == last_write[op.id].request
     IN /\ submitted.request_id = op.id
        /\ ret # Null
        /\ ret.request_id = op.id
        /\ ret.status = "pending"
        /\ ret.video_path = PathStr(submitted.video_path)
        /\ ret.title = submitted.metadata.title
        /\ ret.description = submitted.metadata.description
        /\ ret.tags = submitted.metadata.tags
        /\ ret.category_id = submitted.metadata.category_id
        /\ ret.thumbnail_path = PathStr(submitted.thumbnail_path)

\* get_request returned the record of a request created with a custom title
\* and custom tags, while another request of the store has been approved
\* since.
C13_Witness ==
  /\ op.name = "get"
  /\ last_write[op.id].name = "create"
  /\ ret # Null
  /\ ret.title = "CT"
  /\ ret.tags = <<"c1">>
  /\ \E id \in Ids \ {op.id} : last_write[id].name = "approve"

\* C14: list_pending returns exactly the records of the store whose status
\* is pending; after approve_request(id) on an existing identifier (and no
\* later write of that record) get_request(id) returns status approved and
\* no record that list_pending returns has that identifier.
C14_ApprovedLeavesPending ==
  /\ op.name = "list" =>
        /\ ret = {store[id] : id \in {i \in DOMAIN store : store[i].status = "pending"}}
        /\ \A id \in Ids :
              last_write[id].name = "approve"
                => \A r \in ret : r.request_id # id
  /\ (op.name = "get" /\ last_write[op.id].name = "approve") =>
        /\ ret # Null
        /\ ret.request_id = op.id
        /\ ret.status = "approved"

\* list_pending has returned the one pending record of a store that also
\* holds an approved request.
C14_Witness ==
  /\ op.name = "list"
  /\ \E id \in Ids :
        /\ last_write[id].name = "approve"
        /\ id \in DOMAIN store
        /\ store[id].status = "approved"
  /\ Cardinality(ret) = 1

\* C15: update_request_metadata on an existing identifier gives title,
\* description and tags the supplied value where one was supplied and is not
\* empty, and leaves everything else as it was: the fields not supplied, the
\* record's identifier, status, video path, thumbnail path, category and
\* creation time, and every other record of the store.
C15_UpdateChangesOnlySupplied ==
  [][(op'.name = "update" /\ op'.was_key) =>
       LET id == op'.id
           a == op'.args
       IN /\ id \in DOMAIN store
          /\ DOMAIN store' = DOMAIN store
          /\ \A k \in DOMAIN store \ {id} : store'[k] = store[k]
          /\ store'[id].title =
                IF TruthyStr(a.title) THEN a.title ELSE store[id].title
          /\ store'[id].description =
                IF TruthyStr(a.description) THEN a.description
                ELSE store[id].description
          /\ store'[id].tags =
                IF TruthyList(a.tags) THEN a.tags ELSE store[id].tags
          /\ store'[id].request_id = store[id].request_id
          /\ store'[id].status = store[id].status
          /\ store'[id].video_path = store[id].video_path
          /\ store'[id].thumbnail_path = store[id].thumbnail_path
          /\ store'[id].category_id = store[id].category_id
          /\ store'[id].created_at = store[id].created_at
          /\ DOMAIN store'[id] = DOMAIN store[id]
          /\ ret' = store'[id]]_vars

\* An update that supplied only a title (an empty description is not a
\* supplied one) has changed the title of an approved request and kept its
\* generated description and tags, in a store that holds another request.
C15_Witness ==
  /\ op.name = "update"
  /\ op.was_key
  /\ op.args = [title |-> "CT", description |-> NoneStr, tags |-> NoneList]
  /\ store[op.id].title = "CT"
  /\ store[op.id].description = "GD"
  /\ store[op.id].tags = <<"g1", "g2">>
  /\ store[op.id].status = "approved"
  /\ Cardinality(DOMAIN store) = 2

\* C16: approve_request, reject_request, update_request_metadata and
\* get_request called with an identifier that is not in the store return
\* not-found (None) and do not write the file: save_pending_requests is not
\* called and the store is as it was.
C16_AbsentIdIsNotFound ==
  [][(op'.name \in {"approve", "reject", "update", "get"} /\ ~op'.was_key) =>
       /\ op'.id \notin DOMAIN store
       /\ ret' = Null
       /\ ~op'.saved
       /\ store' = store
       /\ last_write' = last_write]_vars

\* reject_request was called with an identifier that the store, which holds
\* another request, does not have, and returned not-found.
C16_Witness ==
  /\ op.name = "reject"
  /\ ~op.was_key
  /\ ret = Null
  /\ DOMAIN store # {}
  /\ op.id \notin DOMAIN store

\* C17: no store operation removes a record: every identifier of the store
\* is still in it after any operation, and a create leaves every record that
\* was in the store as it was (so a resolved request stays listed).
C17_NoRecordRemoved ==
  [][\A id \in DOMAIN store :
       /\ id \in DOMAIN store'
       /\ op'.name = "create" => store'[id] = store[id]]_vars

(***************************************************************************)
(* Pipeline controller (pipeline.py): process_video, one external call per *)
(* step.  The adapters and the uploader either return or raise.            *)
(***************************************************************************)
\* process_video lines 90-95: truthy overrides replace the generated fields.
ApplyOverrides(md, o) ==
  [md EXCEPT
     !.title = IF TruthyStr(o.custom_title) THEN o.custom_title ELSE @,
     !.description = IF TruthyStr(o.custom_description) THEN o.custom_description ELSE @,
     !.tags = IF TruthyList(o.custom_tags) THEN o.custom_tags ELSE @]

Min(a, b) == IF a <= b THEN a ELSE b

\* What a call that raised ValueError yields.
ValueError == [raised |-> "ValueError"]

\* A variant of get_best_frame that takes the first frame whatever index is
\* suggested.
get_first_frame(frames, suggested_index) ==
  IF frames = <<>> THEN ValueError ELSE frames[1]

\* thumbnail.get_best_frame: an empty list raises ValueError (lines 31-32);
\* Python indexes from 0, a sequence from 1.
get_best_frame(frames, suggested_index) ==
  IF frames = <<>>
    THEN ValueError
    ELSE LET index == Min(suggested_index, Len(frames) - 1)
         IN frames[index + 1]

\* generate_thumbnail lines 303-309 and 327-331: the frame selection and the
\* ThumbnailResult; what get_best_frame raises leaves generate_thumbnail.
generate_thumbnail(an, md, output_path, custom_frame) ==
  LET source_frame ==
        IF custom_frame # NonePath
          THEN custom_frame
          ELSE get_best_frame(an.frames, md.suggested_thumbnail_index)
  IN IF source_frame = ValueError
       THEN ValueError
       ELSE [path |-> output_path, source_frame |-> source_frame,
             style |-> "mrbeast"]

\* A variant of BranchTarget that tests skip_approval before dry_run.
BranchTargetSkipFirst(o) ==
  IF o.skip_approval THEN "upload"
  ELSE IF o.dry_run THEN "dry_run"
  ELSE "create"

\* process_video lines 124-144: which branch a run takes.
BranchTarget(o) ==
  IF o.dry_run THEN "dry_run"
  ELSE IF o.skip_approval THEN "upload"
  ELSE "create"

\* A variant of UploadArgs that passes the metadata as generated, without
\* the overrides applied to the run's metadata object.
UploadArgsGenerated(vp, md, th, o) ==
  [video_path |-> vp, metadata |-> GeneratedMetadata, thumbnail_path |-> th.path,
   privacy |-> o.privacy]

\* A variant of UploadArgs that passes no privacy.
UploadArgsNoPrivacy(vp, md, th, o) ==
  [video_path |-> vp, metadata |-> md, thumbnail_path |-> th.path,
   privacy |-> NoneStr]

\* process_video lines 133-138: the arguments of the upload_video call.
UploadArgs(vp, md, th, o) ==
  [video_path |-> vp, metadata |-> md, thumbnail_path |-> th.path,
   privacy |-> o.privacy]

\* A variant of ResolvePrivacy that takes the configured default whatever
\* argument is given.
ResolvePrivacyDefault(privacy) == default_privacy

\* upload_video line 101: `privacy or settings.default_privacy`.
ResolvePrivacy(privacy) ==
  IF TruthyStr(privacy) THEN privacy ELSE default_privacy

\* upload_video lines 106-118: the body of the insert request.
InsertBody(args) ==
  [snippet |-> [title |-> args.metadata.title,
                description |-> args.metadata.description,
                tags |-> args.metadata.tags,
                categoryId |-> args.metadata.category_id],
   status |-> [privacyStatus |-> ResolvePrivacy(args.privacy),
               selfDeclaredMadeForKids |-> FALSE],
   notifySubscribers |-> FALSE]

\* upload_video lines 101 and 150-155: the UploadResult of a finished upload.
UploadResultOf(args, video_id) ==
  [video_id |-> video_id,
   url |-> <<"https://youtube.com/watch?v=", video_id>>,
   title |-> args.metadata.title,
   privacy |-> ResolvePrivacy(args.privacy)]

\* A variant of UploadedResult that sets the status and attaches nothing.
UploadedResultStatusOnly(res, upload_result) ==
  [res EXCEPT !.status = "uploaded"]

\* process_video lines 139-140: the result after a finished upload.
UploadedResult(res, upload_result) ==
  [res EXCEPT !.upload_result = upload_result, !.status = "uploaded"]

\* process_video is called (line 66: no options means the defaults).
StartProcess(vp, o) ==
  /\ ppc \in {"idle", "returned", "raised"}
  /\ runs < MaxRuns
  /\ runs' = runs + 1
  /\ ppc' = "analyze"
  /\ video_path' = vp
  /\ options' = IF o = Null THEN NoOptions ELSE o
  /\ analysis' = Null
  /\ metadata' = Null
  /\ thumbnail' = Null
  /\ result' = Null
  /\ exc' = "none"
  /\ upload_calls' = <<>>
  /\ create_calls' = <<>>
  /\ notify_calls' = <<>>
  /\ store0' = store
  /\ stages' = <<>>
  /\ UNCHANGED <<wvars, svars, xvars>>

\* A variant of Raise in which the failed call is attempted again.
RetryStage(call) ==
  /\ ppc' = ppc
  /\ exc' = exc

\* The run ends with the exception of the call that failed.
Raise(call) ==
  /\ ppc' = "raised"
  /\ exc' = call

\* analyzer.analyze_video, as far as it can fail on its input: a missing file
\* (line 188) and, inside extract_frames, a duration that is not positive.
analyze_video(exists, duration) ==
  IF ~exists THEN "FileNotFoundError"
  ELSE IF duration <= 0 THEN "ValueError"
  ELSE "ok"

\* Lines 79-80: analyze_video returns or raises.
Analyze(exists, duration) ==
  /\ ppc = "analyze"
  /\ stages' = Append(stages, "analyze")
  /\ IF analyze_video(exists, duration) = "ok"
       THEN /\ analysis' = [video_info |-> [path |-> video_path], frames |-> Frames]
            /\ ppc' = "metadata"
            /\ UNCHANGED exc
       ELSE /\ Raise("analyze_video")
            /\ UNCHANGED analysis
  /\ UNCHANGED <<video_path, options, metadata, thumbnail, result, upload_calls,
                 create_calls, notify_calls, store0, runs, wvars, svars, xvars>>

\* Lines 87-95: generate_metadata returns or raises; overrides are applied.
GenerateMetadata(ok) ==
  /\ ppc = "metadata"
  /\ stages' = Append(stages, "metadata")
  /\ IF ok
       THEN /\ metadata' = ApplyOverrides(GeneratedMetadata, options)
            /\ ppc' = "thumbnail"
            /\ UNCHANGED exc
       ELSE /\ Raise("generate_metadata")
            /\ UNCHANGED metadata
  /\ UNCHANGED <<video_path, options, analysis, thumbnail, result, upload_calls,
                 create_calls, notify_calls, store0, runs, wvars, svars, xvars>>

\* Lines 102-108: generate_thumbnail returns or raises.
GenerateThumbnail(ok) ==
  /\ ppc = "thumbnail"
  /\ stages' = Append(stages, "thumbnail")
  /\ IF ok
       THEN /\ thumbnail' = generate_thumbnail(analysis, metadata, ThumbnailPath,
                                               options.custom_thumbnail)
            /\ ppc' = "branch"
            /\ UNCHANGED exc
       ELSE /\ Raise("generate_thumbnail")
            /\ UNCHANGED thumbnail
  /\ UNCHANGED <<video_path, options, analysis, metadata, result, upload_calls,
                 create_calls, notify_calls, store0, runs, wvars, svars, xvars>>

\* Lines 116-130: the ProcessResult is built (status pending by default) and
\* the run branches; a dry run returns here.
Branch ==
  /\ ppc = "branch"
  /\ stages' = Append(stages, "branch")
  /\ LET res == [video_path |-> video_path, analysis |-> analysis,
                 metadata |-> metadata, thumbnail |-> thumbnail,
                 upload_result |-> Null, request_id |-> NoneStr,
                 status |-> "pending"]
         target == BranchTarget(options)
     IN IF target = "dry_run"
          THEN /\ result' = [res EXCEPT !.status = "dry_run"]
               /\ ppc' = "returned"
          ELSE /\ result' = res
               /\ ppc' = target
  /\ UNCHANGED <<video_path, options, analysis, metadata, thumbnail, exc,
                 upload_calls, create_calls, notify_calls, store0, runs, wvars, svars, xvars>>

\* Lines 133-143: upload_video returns an UploadResult or raises; nothing
\* in process_video catches what it raises.
Upload(ok, video_id) ==
  /\ ppc = "upload"
  /\ LET args == UploadArgs(video_path, metadata, thumbnail, options)
     IN IF ok
          THEN LET upload_result == UploadResultOf(args, video_id)
               IN /\ upload_calls' = Append(upload_calls,
                                            [args |-> args, returned |-> upload_result])
                  /\ result' = UploadedResult(result, upload_result)
                  /\ ppc' = "returned"
                  /\ UNCHANGED exc
          ELSE /\ upload_calls' = Append(upload_calls,
                                         [args |-> args, returned |-> Null])
               /\ Raise("upload_video")
               /\ UNCHANGED result
  /\ UNCHANGED <<video_path, options, analysis, metadata, thumbnail,
                 create_calls, notify_calls, store0, runs, stages, wvars, svars, xvars>>

\* Lines 146-151: the approval request is created and persisted.
RequestApproval(uuid, now) ==
  /\ ppc = "create"
  /\ create_approval_request(uuid, now, video_path, metadata, thumbnail.path)
  /\ create_calls' = Append(create_calls, uuid)
  /\ result' = [result EXCEPT !.request_id = uuid]
  /\ ppc' = "notify"
  /\ UNCHANGED <<video_path, options, analysis, metadata, thumbnail, exc,
                 upload_calls, notify_calls, store0, runs, stages, wvars, xvars>>

\* A variant of send_telegram_approval in which a failed delivery of the
\* message raises.
send_telegram_approval_raising(configured, posted) ==
  IF ~configured THEN [returned |-> FALSE]
  ELSE IF ~posted THEN [raised |-> "httpx.post"]
  ELSE [returned |-> TRUE]

\* approval.send_telegram_approval: False when the bot token or the chat id
\* is not configured (lines 95-97), False when posting the message fails
\* (138-143), True otherwise (159; a failure to send the thumbnail is only
\* printed, 154-157).  It calls no store operation.
send_telegram_approval(configured, posted) ==
  IF ~configured THEN [returned |-> FALSE]
  ELSE IF ~posted THEN [returned |-> FALSE]
  ELSE [returned |-> TRUE]

\* Lines 154-166: send_telegram_approval reports delivered or not and the
\* run returns with status pending either way; nothing in process_video
\* catches what the call raises.
Notify(configured, posted) ==
  /\ ppc = "notify"
  /\ LET out == send_telegram_approval(configured, posted)
         raised == "raised" \in DOMAIN out
     IN /\ notify_calls' =
             Append(notify_calls,
                    [request_id |-> result.request_id,
                     persisted |-> /\ result.request_id \in DOMAIN store
                                   /\ store[result.request_id].status = "pending",
                     configured |-> configured,
                     posted |-> configured /\ posted,
                     sent |-> ~raised /\ out.returned])
        /\ IF raised
             THEN /\ Raise("send_telegram_approval")
                  /\ UNCHANGED result
             ELSE /\ result' = [result EXCEPT !.status = "pending"]
                  /\ ppc' = "returned"
                  /\ UNCHANGED exc
  /\ UNCHANGED <<video_path, options, analysis, metadata, thumbnail,
                 upload_calls, create_calls, store0, runs, stages, wvars, svars, xvars>>

PipelineInit ==
  /\ WatcherIdle
  /\ StoreIdle
  /\ PipelineIdle
  /\ ExtraIdle

PipelineNext ==
  \/ \E vp \in VideoPaths, o \in OptionsSet \cup {Null} : StartProcess(vp, o)
  \/ \E exists \in BOOLEAN, duration \in Durations : Analyze(exists, duration)
  \/ \E ok \in BOOLEAN : GenerateMetadata(ok)
  \/ \E ok \in BOOLEAN : GenerateThumbnail(ok)
  \/ Branch
  \/ \E ok \in BOOLEAN, video_id \in VideoIds : Upload(ok, video_id)
  \/ \E uuid \in Ids, now \in Times : RequestApproval(uuid, now)
  \/ \E configured \in BOOLEAN, posted \in BOOLEAN : Notify(configured, posted)

SpecPipeline == PipelineInit /\ [][PipelineNext]_vars

(***************************************************************************)
(* Frame extraction (analyzer.py): the timestamps of extract_frames, called *)
(* on its own.  The code computes them in floating point; here they are    *)
(* exact fractions <<numerator, denominator>> in lowest terms (seconds).   *)
(***************************************************************************)
RECURSIVE GCD(_, _)
GCD(a, b) == IF b = 0 THEN a ELSE GCD(b, a % b)

\* The number a / b (a >= 0, b > 0).
Frac(a, b) == LET g == GCD(a, b) IN <<a \div g, b \div g>>

\* x + y, x - y (for x >= y), x * k and x / k of fractions x, y and a
\* whole number k.
FracAdd(x, y) == Frac(x[1] * y[2] + y[1] * x[2], x[2] * y[2])
FracSub(x, y) == Frac(x[1] * y[2] - y[1] * x[2], x[2] * y[2])
FracTimes(x, k) == Frac(x[1] * k, x[2])
FracOver(x, k) == Frac(x[1], x[2] * k)

\* Durations of the videos whose frames are extracted: whole minutes, in
\* seconds (0: the container states no duration).
FrameDurations == {60 * m : m \in 0..MaxMinutes}

\* A variant of extract_frames that divides the span by the number of
\* frames.
extract_frames_span_over_frames(duration, num_frames) ==
  IF duration <= 0
    THEN ValueError
    ELSE LET start_time == FracTimes(Frac(5, 100), duration)
             end_time == FracTimes(Frac(95, 100), duration)
             interval == IF num_frames > 1
                           THEN FracOver(FracSub(end_time, start_time), num_frames)
                           ELSE Frac(0, 1)
         IN [timestamps |->
               [k \in 1..num_frames |->
                  FracAdd(start_time, FracTimes(interval, k - 1))],
             frames |-> FrameList(num_frames)]

\* extract_frames lines 93-124, with num_frames the number after line 90,
\* when every ffmpeg call succeeds: the timestamp of each frame (Python's
\* i is k - 1) and the frame list.
extract_frames(duration, num_frames) ==
  IF duration <= 0
    THEN ValueError
    ELSE LET start_time == FracTimes(Frac(5, 100), duration)
             end_time == FracTimes(Frac(95, 100), duration)
             interval == IF num_frames > 1
                           THEN FracOver(FracSub(end_time, start_time),
                                         num_frames - 1)
                           ELSE Frac(0, 1)
         IN [timestamps |->
               [k \in 1..num_frames |->
                  FracAdd(start_time, FracTimes(interval, k - 1))],
             frames |-> FrameList(num_frames)]

\* extract_frames is called for a video of the given duration.
FramesCall(duration, num_frames) ==
  /\ fcall' = [name |-> "extract_frames", duration |-> duration,
               num_frames |-> num_frames]
  /\ fret' = extract_frames(duration, num_frames)
  /\ UNCHANGED <<wvars, svars, pvars, rvars, cvars, uvars, evars, kvars>>

FramesInit ==
  /\ WatcherIdle
  /\ StoreIdle
  /\ PipelineIdle
  /\ ExtraIdle

FramesNext ==
  \E duration \in FrameDurations, num_frames \in 0..MaxFrames :
     FramesCall(duration, num_frames)

SpecFrames == FramesInit /\ [][FramesNext]_vars

(***************************************************************************)
(* Frame extraction: claims.                                               *)
(***************************************************************************)
\* C29: for a duration D > 0 and n >= 2 frames, extract_frames uses n
\* timestamps, the i-th (i = 0..n-1) being 0.05*D + i*(0.90*D/(n-1)): the
\* first is 5% of D, the last 95% of D, and two consecutive ones are
\* 0.90*D/(n-1) apart; for D = 600 and n = 10 they are 30, 90, ..., 570.
C29_TimestampsEvenlySpaced ==
  (fcall.name = "extract_frames" /\ fcall.duration > 0 /\ fcall.num_frames >= 2) =>
     LET D == fcall.duration
         n == fcall.num_frames
     IN /\ fret # ValueError
        /\ Len(fret.timestamps) = n
        /\ Len(fret.frames) = n
        /\ \A i \in 0..(n - 1) :
              fret.timestamps[i + 1] =
                 Frac(5 * D * (n - 1) + i * 90 * D, 100 * (n - 1))
        /\ fret.timestamps[1] = Frac(5 * D, 100)
        /\ fret.timestamps[n] = Frac(95 * D, 100)
        /\ \A i \in 1..(n - 1) :
              FracSub(fret.timestamps[i + 1], fret.timestamps[i]) =
                 Frac(90 * D, 100 * (n - 1))
        /\ (D = 600 /\ n = 10) =>
              fret.timestamps = [k \in 1..10 |-> <<30 + 60 * (k - 1), 1>>]

\* The frames of a 600-second video were extracted with 10 frames: the
\* first timestamp is 30, the second 90 and the last 570.
C29_Witness ==
  /\ fcall.name = "extract_frames"
  /\ fcall.duration = 600
  /\ fcall.num_frames = 10
  /\ fret # ValueError
  /\ fret.timestamps[1] = <<30, 1>>
  /\ fret.timestamps[2] = <<90, 1>>
  /\ fret.timestamps[10] = <<570, 1>>

(***************************************************************************)
(* Thumbnail stage (thumbnail.py): the frame selection of                  *)
(* generate_thumbnail, called on its own with every frame list, suggested  *)
(* index and explicit frame.                                               *)
(***************************************************************************)
\* Explicit frames the options may carry (custom_frame).
CustomFrames == {NonePath, PathOf("my/frame.jpg")}

\* generate_thumbnail(analysis, metadata, output_path, custom_frame=...) for
\* an analysis with n frames and metadata with the given suggested index.
ThumbnailCall(n, suggested_index, custom_frame) ==
  /\ fcall' = [name |-> "generate_thumbnail", frames |-> FrameList(n),
               suggested_index |-> suggested_index,
               custom_frame |-> custom_frame]
  /\ fret' = generate_thumbnail(
                [frames |-> FrameList(n)],
                [GeneratedMetadata EXCEPT
                   !.suggested_thumbnail_index = suggested_index],
                ThumbnailPath, custom_frame)
  /\ UNCHANGED <<wvars, svars, pvars, rvars, cvars, uvars, evars, kvars>>

ThumbnailInit ==
  /\ WatcherIdle
  /\ StoreIdle
  /\ PipelineIdle
  /\ ExtraIdle

ThumbnailNext ==
  \E n \in 0..MaxFrames, suggested_index \in 0..MaxIndex,
     custom_frame \in CustomFrames :
        ThumbnailCall(n, suggested_index, custom_frame)

SpecThumbnail == ThumbnailInit /\ [][ThumbnailNext]_vars

(***************************************************************************)
(* Thumbnail stage: claims.                                                *)
(***************************************************************************)
\* C23: the source frame of the thumbnail is the explicit frame whenever
\* the call was given one (also when the frame list is empty); otherwise,
\* with frames 0..frameCount-1 in the list, it is frame number
\* min(suggestedIndex, frameCount-1), and with an empty list the call
\* raises ValueError.
C23_SourceFrame ==
  fcall.name = "generate_thumbnail" =>
     LET frameCount == Len(fcall.frames)
         suggestedIndex == fcall.suggested_index
     IN IF fcall.custom_frame # NonePath
          THEN /\ fret # ValueError
               /\ fret.source_frame = fcall.custom_frame
        ELSE IF frameCount = 0
          THEN fret = ValueError
        ELSE /\ fret # ValueError
             /\ \E k \in 0..(frameCount - 1) :
                   /\ k <= suggestedIndex
                   /\ k = suggestedIndex \/ k = frameCount - 1
                   /\ fret.source_frame = FramePath(k)

\* A call without an explicit frame, with two frames and a suggested index
\* beyond them, took the last frame.
C23_Witness ==
  /\ fcall.name = "generate_thumbnail"
  /\ fcall.custom_frame = NonePath
  /\ Len(fcall.frames) = 2
  /\ fcall.suggested_index = 5
  /\ fret # ValueError
  /\ fret.source_frame = FramePath(1)

(***************************************************************************)
(* Uploader (uploader.py): upload_video, one call of the remote service    *)
(* per step.                                                               *)
(***************************************************************************)
\* Arguments upload_video is called with.
UploadArgsSet ==
  [video_path : VideoPaths,
   metadata : {GeneratedMetadata, [GeneratedMetadata EXCEPT !.title = "CT"]},
   thumbnail_path : {NonePath, ThumbnailPath},
   privacy : {NoneStr, "public"}]

\* A variant of LoopContinues that leaves the chunk loop after one call.
LoopStops(resp) == FALSE

\* Line 135: `while response is None`.
LoopContinues(resp) == resp = Null

\* upload_video is called.
UploadStart(args) ==
  /\ upc \in {"idle", "returned", "raised"}
  /\ upc' = "service"
  /\ uargs' = args
  /\ ubody' = Null
  /\ response' = Null
  /\ chunks' = 0
  /\ attach' = Null
  /\ uresult' = Null
  /\ uexc' = "none"
  /\ UNCHANGED <<wvars, svars, pvars, rvars, cvars, yvars>>

\* A variant of UploadRaises in which the failed call is noted and the call
\* is attempted again.
UploadRetries(call) ==
  /\ upc' = upc
  /\ uexc' = call

\* upload_video ends with the exception of the call that failed.
UploadRaises(call) ==
  /\ upc' = "raised"
  /\ uexc' = call

\* Line 103: get_youtube_service returns the client or raises (missing
\* client_secrets.json, failed authorisation).
GetService(ok) ==
  /\ upc = "service"
  /\ IF ok
       THEN upc' = "insert" /\ UNCHANGED uexc
       ELSE UploadRaises("get_youtube_service")
  /\ UNCHANGED <<uargs, ubody, response, chunks, attach, uresult,
                 wvars, svars, pvars, rvars, cvars, yvars>>

\* Lines 106-134: the body, the media object and the insert request are
\* built; MediaFileUpload raises when the video file cannot be opened.
InsertRequest(video_exists) ==
  /\ upc = "insert"
  /\ IF video_exists
       THEN /\ upc' = "next_chunk"
            /\ ubody' = InsertBody(uargs)
            /\ UNCHANGED uexc
       ELSE /\ UploadRaises("MediaFileUpload")
            /\ UNCHANGED ubody
  /\ response' = Null
  /\ UNCHANGED <<uargs, chunks, attach, uresult,
                 wvars, svars, pvars, rvars, cvars, yvars>>

\* Lines 135-139: one request.next_chunk(): it returns no response yet
\* (progress only), returns the terminal response, or raises.
NextChunk(answer, video_id) ==
  /\ upc = "next_chunk"
  /\ chunks < MaxChunks
  /\ answer = "progress" => chunks + 1 < MaxChunks
  /\ chunks' = chunks + 1
  /\ IF answer = "error"
       THEN /\ UploadRaises("next_chunk")
            /\ UNCHANGED response
       ELSE /\ response' = IF answer = "done" THEN [id |-> video_id] ELSE Null
            /\ upc' = IF LoopContinues(response') THEN "next_chunk" ELSE "thumbnail"
            /\ UNCHANGED uexc
  /\ UNCHANGED <<uargs, ubody, attach, uresult, wvars, svars, pvars, rvars, cvars, yvars>>

\* Lines 141-155: the video id is taken from the response; the thumbnail is
\* attached when a path was given and the file exists, and nothing catches
\* what thumbnails().set(...).execute() raises; the UploadResult is returned.
AttachAndReturn(thumbnail_exists, ok) ==
  /\ upc = "thumbnail"
  /\ LET video_id == response.id
         seen == uargs.thumbnail_path # NonePath /\ thumbnail_exists
     IN IF seen
          THEN /\ attach' = [exists |-> TRUE, calls |-> 1, failed |-> ~ok]
               /\ IF ok
                    THEN /\ uresult' = UploadResultOf(uargs, video_id)
                         /\ upc' = "returned"
                         /\ UNCHANGED uexc
                    ELSE /\ UploadRaises("thumbnails_set")
                         /\ UNCHANGED uresult
          ELSE /\ attach' = [exists |-> FALSE, calls |-> 0, failed |-> FALSE]
               /\ uresult' = UploadResultOf(uargs, video_id)
               /\ upc' = "returned"
               /\ UNCHANGED uexc
  /\ UNCHANGED <<uargs, ubody, response, chunks, wvars, svars, pvars, rvars, cvars, yvars>>

\* The steps of a running upload_video call.
UploaderStep ==
  \/ \E ok \in BOOLEAN : GetService(ok)
  \/ \E video_exists \in BOOLEAN : InsertRequest(video_exists)
  \/ \E answer \in {"progress", "done", "error"}, video_id \in VideoIds :
        NextChunk(answer, video_id)
  \/ \E thumbnail_exists \in BOOLEAN, ok \in BOOLEAN :
        AttachAndReturn(thumbnail_exists, ok)

UploaderInit ==
  /\ WatcherIdle
  /\ StoreIdle
  /\ PipelineIdle
  /\ ExtraIdle

UploaderNext ==
  \/ \E args \in UploadArgsSet : UploadStart(args)
  \/ UploaderStep

SpecUploader == UploaderInit /\ [][UploaderNext]_vars

\* upload_video is synchronous: once called, it goes on until it returns or
\* raises, and the remote side answers every call.
SpecUploaderLive == SpecUploader /\ WF_vars(UploaderStep)

(***************************************************************************)
(* Uploader: claims.                                                       *)
(***************************************************************************)
\* C19: after the transfer has succeeded, upload_video makes one thumbnail
\* attachment call exactly when a thumbnail path was given and the file
\* exists, and when that call fails it still returns an UploadResult for
\* the uploaded video.
C19_ThumbnailFailureStillSucceeds ==
  attach # Null =>
     /\ response # Null
     /\ attach.calls = (IF uargs.thumbnail_path # NonePath /\ attach.exists
                          THEN 1 ELSE 0)
     /\ upc = "returned"
     /\ uresult # Null
     /\ uresult.video_id = response.id

\* Calls whose failure is a missing credential or a transport error of the
\* transfer.
HardFailures == {"get_youtube_service", "next_chunk"}

\* C21: when get_youtube_service fails (credentials missing) or a
\* next_chunk call fails (transport error), upload_video ends by raising:
\* it has made no thumbnail attachment call and produced no UploadResult,
\* it requests no chunk after the failure (none at all when the credentials
\* are missing), and the failing step itself is the last one of the call.
C21_HardFailNoRetry ==
  /\ [](uexc \in HardFailures =>
          /\ upc = "raised"
          /\ attach = Null
          /\ uresult = Null)
  /\ [](uexc = "get_youtube_service" => chunks = 0)
  /\ [][/\ (upc = "next_chunk" /\ upc' = "raised")
            => (uexc' = "next_chunk" /\ chunks' = chunks + 1)
        /\ (uexc \in HardFailures /\ uexc' = uexc)
            => (chunks' = chunks /\ attach' = attach /\ uresult' = uresult)
        /\ (uexc \in HardFailures /\ uexc' # uexc)
            => (upc' = "service" /\ chunks' = 0)]_vars

\* A transfer whose first chunk request made progress failed at the second
\* one, for a call that was given a thumbnail path.
C21_Witness ==
  /\ upc = "raised"
  /\ uexc = "next_chunk"
  /\ chunks = 2
  /\ response = Null
  /\ uargs.thumbnail_path = ThumbnailPath
  /\ attach = Null
  /\ uresult = Null

\* C24: the privacy status in the body of the insert request, and the
\* privacy of the UploadResult, are the privacy argument of the call when
\* one was given and the configured default privacy otherwise.
C24_PrivacyResolved ==
  LET expected == IF uargs.privacy # NoneStr THEN uargs.privacy
                  ELSE default_privacy
  IN /\ ubody # Null => ubody.status.privacyStatus = expected
     /\ upc \in {"next_chunk", "thumbnail", "returned"} => ubody # Null
     /\ uresult # Null =>
           /\ ubody # Null
           /\ uresult.privacy = expected

\* An upload called with an explicit privacy that differs from the
\* configured default has returned its result.
C24_Witness ==
  /\ upc = "returned"
  /\ uargs.privacy = "public"
  /\ uargs.privacy # default_privacy
  /\ ubody # Null
  /\ ubody.status.privacyStatus = "public"
  /\ uresult # Null
  /\ uresult.privacy = "public"

\* The chunk loop is running.
InChunkLoop == upc = "next_chunk"

\* C20: upload_video requests chunks while no terminal response has come
\* (it leaves the loop only with a response or by an error), requests none
\* after the first terminal response, returns an UploadResult only with a
\* terminal response and with the identifier taken from it, and a started
\* transfer ends (by returning or raising) once the remote side answers.
C20_ChunkLoopTerminates ==
  /\ [](InChunkLoop => response = Null)
  /\ [](upc = "returned" =>
          /\ response # Null
          /\ uresult # Null
          /\ uresult.video_id = response.id
          /\ chunks >= 1)
  /\ [][/\ (InChunkLoop /\ upc' # "next_chunk")
            => (response' # Null \/ upc' = "raised")
        /\ (response # Null /\ response' # Null) => chunks' = chunks]_vars
  /\ (InChunkLoop ~> upc \in {"returned", "raised"})

\* A transfer that needed every call the remote side allows (progress, then
\* the terminal response at the last one) has returned its result.
C20_Witness ==
  /\ upc = "returned"
  /\ chunks = MaxChunks
  /\ response # Null
  /\ uresult # Null
  /\ uresult.video_id = response.id

(***************************************************************************)
(* Command surface (cli.py): the approve and reject commands, each in its  *)
(* own process, one store operation or one external call per step.         *)
(* Requests are created by pipeline runs of other processes and edited     *)
(* through update_request_metadata while commands run.                     *)
(***************************************************************************)
\* A variant of ExecuteUploadArgs that uploads the metadata as the pipeline
\* generated it.
ExecuteUploadArgsGenerated(request_data, thumbnail_exists) ==
  [video_path |-> PathOf(request_data.video_path),
   metadata |-> GeneratedMetadata,
   thumbnail_path |-> IF thumbnail_exists
                        THEN PathOf(request_data.thumbnail_path)
                        ELSE NonePath,
   privacy |-> NoneStr]

\* execute_upload lines 180-181, 187-193 and 199-203: the arguments of its
\* upload_video call (no privacy is passed).
ExecuteUploadArgs(request_data, thumbnail_exists) ==
  [video_path |-> PathOf(request_data.video_path),
   metadata |-> [title |-> request_data.title,
                 description |-> request_data.description,
                 tags |-> request_data.tags,
                 category_id |-> request_data.category_id,
                 suggested_thumbnail_index |-> 0],
   thumbnail_path |-> IF thumbnail_exists
                        THEN PathOf(request_data.thumbnail_path)
                        ELSE NonePath,
   privacy |-> NoneStr]

\* Process w (or a process that runs no command, "") has written the record
\* of request_id: the commands that have read it and not yet approved it
\* hold an older copy.
MarkDirty(w, request_id) ==
  dirty' = [pr \in Procs |->
              IF pr # w /\ cpc[pr] = "approve" /\ cmd[pr].id = request_id
                THEN TRUE
                ELSE dirty[pr]]

\* A command of process pr starts: nothing of an earlier command is left.
CmdStart(pr, name, request_id) ==
  /\ cmd' = [cmd EXCEPT ![pr] = [name |-> name, id |-> request_id]]
  /\ dirty' = [dirty EXCEPT ![pr] = FALSE]
  /\ cupload' = [cupload EXCEPT ![pr] = NotCalled]

\* The command of process pr ends: by returning (exit code 0) or by
\* typer.Exit(1).
CmdEnd(pr, code) ==
  /\ cexit' = [cexit EXCEPT ![pr] = code]
  /\ cpc' = [cpc EXCEPT ![pr] = "idle"]
  /\ crequest' = [crequest EXCEPT ![pr] = Null]
  /\ approved' = [approved EXCEPT ![pr] = Null]
  /\ ucall' = [ucall EXCEPT ![pr] = Null]

\* A variant of ApproveStart without the status check of lines 236-238.
ApproveStartNoStatusTest(pr, request_id) ==
  /\ cpc[pr] = "idle"
  /\ CmdStart(pr, "approve", request_id)
  /\ LET request == StoreCall(load_pending_requests,
                              [name |-> "get", id |-> request_id]).returned
     IN IF request = Null
          THEN CmdEnd(pr, 1)
          ELSE /\ cpc' = [cpc EXCEPT ![pr] = "approve"]
               /\ crequest' = [crequest EXCEPT ![pr] = request]
               /\ cexit' = [cexit EXCEPT ![pr] = Null]
               /\ UNCHANGED <<approved, ucall>>
  /\ UNCHANGED <<attempts, svars, wvars, pvars, rvars, uvars, yvars>>

\* approve, lines 231-238: get_request, the not-found exit and the
\* status check.
ApproveStart(pr, request_id) ==
  /\ cpc[pr] = "idle"
  /\ CmdStart(pr, "approve", request_id)
  /\ LET request == StoreCall(load_pending_requests,
                              [name |-> "get", id |-> request_id]).returned
     IN IF request = Null \/ request.status # "pending"
          THEN CmdEnd(pr, 1)
          ELSE /\ cpc' = [cpc EXCEPT ![pr] = "approve"]
               /\ crequest' = [crequest EXCEPT ![pr] = request]
               /\ cexit' = [cexit EXCEPT ![pr] = Null]
               /\ UNCHANGED <<approved, ucall>>
  /\ UNCHANGED <<attempts, svars, wvars, pvars, rvars, uvars, yvars>>

\* approve, line 240: approve_request; what it returns is not used.
ApproveTransition(pr) ==
  /\ cpc[pr] = "approve"
  /\ LET out == StoreCall(load_pending_requests,
                          [name |-> "approve", id |-> cmd[pr].id])
     IN /\ IF out.wrote
             THEN save_pending_requests(out.mapping)
             ELSE UNCHANGED store
        /\ approved' = [approved EXCEPT ![pr] = out.returned]
  /\ MarkDirty(pr, cmd[pr].id)
  /\ cpc' = [cpc EXCEPT ![pr] = "execute"]
  /\ UNCHANGED <<cmd, crequest, ucall, cexit, cupload, attempts, slog, wvars,
                 pvars, rvars, uvars, yvars>>

\* approve, line 244, and execute_upload lines 180-203: a missing video
\* returns None without an upload (lines 183-185) and the command ends;
\* otherwise upload_video is called with the record read at line 231.
ExecuteUpload(pr, video_exists, thumbnail_exists) ==
  /\ cpc[pr] = "execute"
  /\ IF ~video_exists
       THEN /\ CmdEnd(pr, 0)
            /\ cupload' = [cupload EXCEPT ![pr] =
                             [called |-> TRUE, returned |-> Null]]
       ELSE /\ ucall' = [ucall EXCEPT ![pr] =
                           [args |-> ExecuteUploadArgs(crequest[pr], thumbnail_exists),
                            thumbnail_exists |-> thumbnail_exists]]
            /\ cpc' = [cpc EXCEPT ![pr] = "uploading"]
            /\ UNCHANGED <<crequest, approved, cexit, cupload>>
  /\ UNCHANGED <<cmd, dirty, svars, wvars, pvars, rvars, uvars, yvars>>

\* A variant of UploadReturns in which a failed upload puts the stored
\* status back to pending.
UploadReturnsReverting(pr, ok, video_id) ==
  /\ cpc[pr] = "uploading"
  /\ cupload' = [cupload EXCEPT ![pr] =
                   [called |-> TRUE,
                    returned |-> IF ok
                                   THEN UploadResultOf(ucall[pr].args, video_id)
                                   ELSE Null]]
  /\ CmdEnd(pr, 0)
  /\ IF ok
       THEN UNCHANGED store
       ELSE store' = [store EXCEPT ![cmd[pr].id].status = "pending"]
  /\ UNCHANGED <<cmd, dirty, attempts, slog, wvars, pvars, rvars, uvars, yvars>>

\* execute_upload lines 205-212: upload_video returns a result, which
\* execute_upload returns, or raises, which execute_upload turns into None;
\* either way the command ends normally.
UploadReturns(pr, ok, video_id) ==
  /\ cpc[pr] = "uploading"
  /\ cupload' = [cupload EXCEPT ![pr] =
                   [called |-> TRUE,
                    returned |-> IF ok
                                   THEN UploadResultOf(ucall[pr].args, video_id)
                                   ELSE Null]]
  /\ CmdEnd(pr, 0)
  /\ UNCHANGED <<cmd, dirty, attempts, svars, wvars, pvars, rvars, uvars, yvars>>

\* reject, lines 254-257: get_request and the not-found exit (the status
\* is not looked at).
RejectStart(pr, request_id) ==
  /\ cpc[pr] = "idle"
  /\ CmdStart(pr, "reject", request_id)
  /\ LET request == StoreCall(load_pending_requests,
                              [name |-> "get", id |-> request_id]).returned
     IN IF request = Null
          THEN CmdEnd(pr, 1)
          ELSE /\ cpc' = [cpc EXCEPT ![pr] = "reject"]
               /\ crequest' = [crequest EXCEPT ![pr] = request]
               /\ cexit' = [cexit EXCEPT ![pr] = Null]
               /\ UNCHANGED <<approved, ucall>>
  /\ UNCHANGED <<attempts, svars, wvars, pvars, rvars, uvars, yvars>>

\* reject, lines 259-260: reject_request, and the command ends.
RejectTransition(pr) ==
  /\ cpc[pr] = "reject"
  /\ LET out == StoreCall(load_pending_requests,
                          [name |-> "reject", id |-> cmd[pr].id])
     IN IF out.wrote
          THEN save_pending_requests(out.mapping)
          ELSE UNCHANGED store
  /\ MarkDirty(pr, cmd[pr].id)
  /\ CmdEnd(pr, 0)
  /\ UNCHANGED <<cmd, cupload, attempts, slog, wvars, pvars, rvars, uvars, yvars>>

\* A pipeline run of another process creates a request (pipeline.py lines
\* 146-150).
PipelineCreates(request) ==
  /\ save_pending_requests(
        StoreCall(load_pending_requests,
                  [name |-> "create", id |-> request.request_id,
                   request |-> request]).mapping)
  /\ MarkDirty("", request.request_id)
  /\ attempts' = [attempts EXCEPT ![request.request_id] = 0]
  /\ UNCHANGED <<cpc, cmd, crequest, approved, ucall, cexit, cupload, slog,
                 wvars, pvars, rvars, uvars, yvars>>

\* Another process edits a stored request through update_request_metadata.
EditorUpdates(request_id, title, description, tags) ==
  /\ request_id \in DOMAIN store
  /\ save_pending_requests(
        StoreCall(load_pending_requests,
                  [name |-> "update", id |-> request_id,
                   args |-> [title |-> title, description |-> description,
                             tags |-> tags]]).mapping)
  /\ MarkDirty("", request_id)
  /\ UNCHANGED <<cpc, cmd, crequest, approved, ucall, cexit, cupload, attempts,
                 slog, wvars, pvars, rvars, uvars, yvars>>

CliInit ==
  /\ WatcherIdle
  /\ StoreIdle
  /\ PipelineIdle
  /\ ExtraIdle

CliNext ==
  \/ \E pr \in Procs, id \in Ids : ApproveStart(pr, id)
  \/ \E pr \in Procs : ApproveTransition(pr)
  \/ \E pr \in Procs, video_exists \in BOOLEAN, thumbnail_exists \in BOOLEAN :
        ExecuteUpload(pr, video_exists, thumbnail_exists) /\ UNCHANGED attempts
  \/ \E pr \in Procs, ok \in BOOLEAN, video_id \in VideoIds :
        UploadReturns(pr, ok, video_id)
  \/ \E pr \in Procs, id \in Ids : RejectStart(pr, id)
  \/ \E pr \in Procs : RejectTransition(pr)
  \/ \E uuid \in Ids, now \in Times, v \in VideoPaths :
        PipelineCreates([request_id |-> uuid, video_path |-> v,
                         metadata |-> GeneratedMetadata,
                         thumbnail_path |-> ThumbnailPath, created_at |-> now,
                         status |-> "pending"])
  \/ \E id \in Ids : EditorUpdates(id, "CT", NoneStr, NoneList)

SpecCli == CliInit /\ [][CliNext]_vars

\* Commands run one after the other: a command starts, a pipeline run
\* creates a request and an editor updates one when no command is running,
\* and the execute_upload calls made for each stored request are counted.
NoOtherCommand(pr) == \A q \in Procs \ {pr} : cpc[q] = "idle"

CountAttempt(request_id) ==
  attempts' = [attempts EXCEPT ![request_id] = Min(@ + 1, 2)]

CliSeqNext ==
  \/ \E pr \in Procs, id \in Ids : NoOtherCommand(pr) /\ ApproveStart(pr, id)
  \/ \E pr \in Procs : ApproveTransition(pr)
  \/ \E pr \in Procs, video_exists \in BOOLEAN, thumbnail_exists \in BOOLEAN :
        /\ ExecuteUpload(pr, video_exists, thumbnail_exists)
        /\ CountAttempt(cmd[pr].id)
  \/ \E pr \in Procs, ok \in BOOLEAN, video_id \in VideoIds :
        UploadReturns(pr, ok, video_id)
  \/ \E pr \in Procs, id \in Ids : NoOtherCommand(pr) /\ RejectStart(pr, id)
  \/ \E pr \in Procs : RejectTransition(pr)
  \/ \E uuid \in Ids, now \in Times, v \in VideoPaths :
        /\ NoOtherCommand("")
        /\ PipelineCreates([request_id |-> uuid, video_path |-> v,
                            metadata |-> GeneratedMetadata,
                            thumbnail_path |-> ThumbnailPath,
                            created_at |-> now, status |-> "pending"])
  \/ \E id \in Ids :
        NoOtherCommand("") /\ EditorUpdates(id, "CT", NoneStr, NoneList)

SpecCliSeq == CliInit /\ [][CliSeqNext]_vars

(***************************************************************************)
(* A pipeline run and the approve commands that follow it: the run         *)
(* (pipeline.py) creates the request in the store file the commands        *)
(* (cli.py) read.  The runs differ in their privacy option and in the      *)
(* skip_approval flag; their stages succeed.                               *)
(***************************************************************************)
PrivacyOptions ==
  {o \in OptionsSet :
      /\ o.custom_title = NoneStr
      /\ o.custom_description = NoneStr
      /\ o.custom_tags = NoneList
      /\ o.custom_thumbnail = NonePath
      /\ ~o.dry_run}

RunThenApproveNext ==
  \/ \E vp \in VideoPaths, o \in PrivacyOptions : StartProcess(vp, o)
  \/ Analyze(TRUE, 30)
  \/ GenerateMetadata(TRUE)
  \/ GenerateThumbnail(TRUE)
  \/ Branch
  \/ \E ok \in BOOLEAN, video_id \in VideoIds : Upload(ok, video_id)
  \/ \E uuid \in Ids, now \in Times : RequestApproval(uuid, now)
  \/ \E configured \in BOOLEAN : Notify(configured, TRUE)
  \/ \E pr \in Procs, id \in Ids : ApproveStart(pr, id)
  \/ \E pr \in Procs : ApproveTransition(pr)
  \/ \E pr \in Procs, video_exists \in BOOLEAN, thumbnail_exists \in BOOLEAN :
        ExecuteUpload(pr, video_exists, thumbnail_exists) /\ UNCHANGED attempts
  \/ \E pr \in Procs, ok \in BOOLEAN, video_id \in VideoIds :
        UploadReturns(pr, ok, video_id)

SpecRunThenApprove == CliInit /\ [][RunThenApproveNext]_vars

(***************************************************************************)
(* Command surface: claims.                                                *)
(***************************************************************************)
\* C34: a privacy override in the process options reaches upload_video only
\* on the skip-approval path, where the run's upload is made with it; the
\* stored request has no privacy field, and the upload_video call of an
\* approve command is given no privacy, so that its insert request and its
\* result carry the configured default whatever the run's override was.
C34_PrivacyOverrideOnlyOnSkipPath ==
  /\ \A i \in 1..Len(upload_calls) :
        /\ options.skip_approval
        /\ upload_calls[i].args.privacy = options.privacy
        /\ TruthyStr(options.privacy)
              => InsertBody(upload_calls[i].args).status.privacyStatus
                   = options.privacy
  /\ \A id \in DOMAIN store :
        /\ "privacy" \notin DOMAIN store[id]
        /\ \A f \in DOMAIN store[id] : store[id][f] # "public"
  /\ \A pr \in Procs :
        /\ crequest[pr] # Null => "privacy" \notin DOMAIN crequest[pr]
        /\ ucall[pr] # Null =>
              /\ ucall[pr].args.privacy = NoneStr
              /\ InsertBody(ucall[pr].args).status.privacyStatus = default_privacy
        /\ (cupload[pr] # NotCalled /\ cupload[pr].returned # Null) =>
              cupload[pr].returned.privacy = default_privacy

\* A run given the privacy override "public" and no skip_approval has
\* returned with a pending request, and an approve command for that request
\* is inside upload_video, whose insert request carries the configured
\* default instead.
C34_Witness ==
  \E pr \in Procs :
     /\ ppc = "returned"
     /\ options.privacy = "public"
     /\ ~options.skip_approval
     /\ result.status = "pending"
     /\ cpc[pr] = "uploading"
     /\ cmd[pr].id = result.request_id
     /\ InsertBody(ucall[pr].args).status.privacyStatus = default_privacy
     /\ default_privacy # options.privacy

\* Process pr takes the first step of a command on the identifier.
Starts(pr, name, request_id) ==
  /\ cpc[pr] = "idle"
  /\ cmd'[pr] = [name |-> name, id |-> request_id]
  /\ <<cpc[pr], cmd[pr], cexit[pr], cupload[pr], dirty[pr]>>
       # <<cpc'[pr], cmd'[pr], cexit'[pr], cupload'[pr], dirty'[pr]>>

\* C31: an approve command started on an identifier whose stored status is
\* not pending ends in that step with exit code 1, writes nothing to the
\* store and does not call execute_upload; and with commands run one after
\* the other execute_upload is called at most once for a stored request.
C31_NonPendingApproveExits ==
  /\ [][\A pr \in Procs, id \in Ids :
          (/\ Starts(pr, "approve", id)
           /\ id \in DOMAIN store
           /\ store[id].status # "pending")
          => /\ cpc'[pr] = "idle"
             /\ cexit'[pr] = 1
             /\ cupload'[pr] = NotCalled
             /\ ucall'[pr] = Null
             /\ attempts' = attempts
             /\ store' = store]_vars
  /\ [](\A id \in Ids : attempts[id] <= 1)

\* An approve command has just ended with exit code 1 and without calling
\* execute_upload, on a request that an earlier command approved and
\* called execute_upload for.
C31_Witness ==
  \E pr \in Procs :
     /\ cpc[pr] = "idle"
     /\ cmd[pr].name = "approve"
     /\ cexit[pr] = 1
     /\ cupload[pr] = NotCalled
     /\ cmd[pr].id \in DOMAIN store
     /\ store[cmd[pr].id].status = "approved"
     /\ attempts[cmd[pr].id] = 1

\* The stored status of the identifier ("" when it is not in the store).
StatusOf(requests, request_id) ==
  IF request_id \in DOMAIN requests THEN requests[request_id].status ELSE ""

\* C32: through the approve and reject commands a resolved request keeps
\* its resolution: no step takes a stored status from approved to rejected
\* or from rejected to approved.
C32_ResolutionKept ==
  [][\A id \in Ids :
        /\ StatusOf(store, id) = "approved" => StatusOf(store', id) # "rejected"
        /\ StatusOf(store, id) = "rejected" => StatusOf(store', id) # "approved"]_vars

\* The execute_upload call of process pr's approve command has just
\* returned None (the video was missing or upload_video raised).
UploadFailsFor(pr) ==
  /\ cupload[pr] = NotCalled
  /\ cupload'[pr] = [called |-> TRUE, returned |-> Null]

\* C33: with commands run one after the other, the stored status is
\* approved from the approve command's approve_request on, through its
\* execute_upload call; a call that returns None (missing video, failed
\* upload) writes nothing, so the status is approved after it, not pending;
\* and an approve command started after an execute_upload call was made for
\* the stored request ends with exit code 1 without calling it again.
C33_FailedUploadStaysApproved ==
  /\ [](\A pr \in Procs :
          cpc[pr] \in {"execute", "uploading"}
             => StatusOf(store, cmd[pr].id) = "approved")
  /\ [][\A pr \in Procs :
          UploadFailsFor(pr)
             => /\ store' = store
                /\ StatusOf(store', cmd[pr].id) = "approved"]_vars
  /\ [][\A pr \in Procs, id \in Ids :
          (Starts(pr, "approve", id) /\ attempts[id] >= 1)
             => /\ cpc'[pr] = "idle"
                /\ cexit'[pr] = 1
                /\ cupload'[pr] = NotCalled
                /\ attempts' = attempts]_vars

\* One process ran an approve command whose execute_upload call returned
\* None; after it the other ran approve for the same identifier, which
\* ended with exit code 1 and without a call; the stored status is
\* approved and one call was made in all.
C33_Witness ==
  \E pr \in Procs, q \in Procs :
     /\ pr # q
     /\ cpc[pr] = "idle" /\ cpc[q] = "idle"
     /\ cmd[pr].name = "approve" /\ cmd[q] = cmd[pr]
     /\ cupload[pr] = [called |-> TRUE, returned |-> Null]
     /\ cexit[pr] = 0
     /\ cupload[q] = NotCalled
     /\ cexit[q] = 1
     /\ StatusOf(store, cmd[pr].id) = "approved"
     /\ attempts[cmd[pr].id] = 1

\* The fields of a stored record that an upload is made from.
UploadFields(r) ==
  [video_path |-> r.video_path, title |-> r.title,
   description |-> r.description, tags |-> r.tags,
   category_id |-> r.category_id, thumbnail_path |-> r.thumbnail_path]

Uploads(pr, request_id) ==
  /\ cmd[pr].name = "approve"
  /\ cmd[pr].id = request_id
  /\ cpc[pr] = "uploading"

\* C30: of two approve commands that run at the same time for the same
\* pending identifier at most one gets to the upload: no two processes are
\* inside execute_upload for one identifier and one record, which both read
\* as pending.
C30_OneUploadPerRequest ==
  \A p \in Procs, q \in Procs, id \in Ids :
     (p # q /\ Uploads(p, id) /\ Uploads(q, id)) => crequest[p] # crequest[q]

(***************************************************************************)
(* Pipeline controller: claims.                                            *)
(***************************************************************************)
ContentStages == {"analyze_video", "generate_metadata", "generate_thumbnail"}

\* The order in which process_video attempts its stages.
StageOrder == <<"analyze", "metadata", "thumbnail", "branch">>

IsPrefix(s, t) ==
  /\ Len(s) <= Len(t)
  /\ \A i \in 1..Len(s) : s[i] = t[i]

\* The stage whose adapter call is the given one.
StageOf(call) ==
  CASE call = "analyze_video" -> "analyze"
    [] call = "generate_metadata" -> "metadata"
    [] call = "generate_thumbnail" -> "thumbnail"
    [] OTHER -> "branch"

\* C11: a run attempts its stages in the order analyze, metadata, thumbnail,
\* branch, each at most once (the log of attempts is a prefix of that order
\* and the run stands at the stage after the last one attempted); when a
\* content stage fails, that stage is the last one attempted, no approval
\* request has been created (the store is as it was when the run started),
\* nothing was uploaded and nobody was notified.
C11_StagesInOrderFailFast ==
  /\ IsPrefix(stages, StageOrder)
  /\ ppc = "analyze" => stages = <<>>
  /\ ppc = "metadata" => stages = <<"analyze">>
  /\ ppc = "thumbnail" => stages = <<"analyze", "metadata">>
  /\ ppc = "branch" => stages = <<"analyze", "metadata", "thumbnail">>
  /\ (create_calls # <<>> \/ upload_calls # <<>> \/ notify_calls # <<>>)
        => stages = StageOrder
  /\ (ppc = "raised" /\ exc \in ContentStages) =>
        /\ stages # <<>>
        /\ stages[Len(stages)] = StageOf(exc)
        /\ create_calls = <<>>
        /\ upload_calls = <<>>
        /\ notify_calls = <<>>
        /\ store = store0

\* The second run of a behaviour ended in the analysis stage (missing file
\* or no duration) after the first run left a request in the store.
C11_Witness ==
  /\ ppc = "raised"
  /\ exc = "analyze_video"
  /\ stages = <<"analyze">>
  /\ runs = 2
  /\ DOMAIN store # {}
  /\ store = store0

\* The generated metadata with every override the options hold (any value
\* that is not None) put in place of the generated field.
WithOverrides(md, o) ==
  [md EXCEPT
     !.title = IF o.custom_title # NoneStr THEN o.custom_title ELSE @,
     !.description = IF o.custom_description # NoneStr
                       THEN o.custom_description ELSE @,
     !.tags = IF o.custom_tags # NoneList THEN o.custom_tags ELSE @]

\* C22: once the metadata stage of a run is done, the run's metadata (which
\* the thumbnail stage is given) has, for title, description and tags, the
\* override of the options where the options hold one and the generated
\* value otherwise; so have the approval request the run stores and the
\* metadata of its upload_video call.
C22_OverridesCarriedVerbatim ==
  metadata # Null =>
     LET expected == WithOverrides(GeneratedMetadata, options)
     IN /\ metadata = expected
        /\ \A i \in DOMAIN upload_calls :
              upload_calls[i].args.metadata = expected
        /\ \A i \in DOMAIN create_calls :
              /\ create_calls[i] \in DOMAIN store
              /\ store[create_calls[i]].title = expected.title
              /\ store[create_calls[i]].description = expected.description
              /\ store[create_calls[i]].tags = expected.tags

\* C7: a run with dry_run set creates no approval request (the store stays
\* as it was), never calls the uploader or the notifier, and returns status
\* dry_run, whatever the other options are (skip_approval, overrides).
C7_DryRunTouchesNothing ==
  (ppc # "idle" /\ options.dry_run) =>
     /\ store = store0
     /\ create_calls = <<>>
     /\ upload_calls = <<>>
     /\ notify_calls = <<>>
     /\ ppc \notin {"upload", "create", "notify"}
     /\ ppc = "returned" => result.status = "dry_run"
     /\ ppc = "raised" => exc \in ContentStages

\* A dry run that also has skip_approval and a title override has returned,
\* after an earlier run left a request in the store.
C7_Witness ==
  /\ ppc = "returned"
  /\ options.dry_run
  /\ options.skip_approval
  /\ options.custom_title = "CT"
  /\ result.status = "dry_run"
  /\ DOMAIN store # {}

\* The upload_video call of this run raised.
UploadFailed ==
  /\ upload_calls # <<>>
  /\ upload_calls[Len(upload_calls)].returned = Null

\* C8: with skip_approval set and dry_run not, a failing upload makes
\* process_video yield a ProcessResult whose status is error, and no approval
\* request has been created.
C8_UploadFailureYieldsErrorStatus ==
  (options.skip_approval /\ ~options.dry_run /\ UploadFailed) =>
     /\ ppc = "returned"
     /\ result.status = "error"
     /\ create_calls = <<>>

\* C9: with neither dry_run nor skip_approval set and the content stages
\* succeeding, the run creates exactly one approval request with status
\* pending, calls the notifier only after that request is in the store, never
\* calls the uploader, and returns status pending with the request's
\* identifier, whether the notifier reports delivered or not.
C9_ApprovalRequested ==
  (ppc # "idle" /\ ~options.dry_run /\ ~options.skip_approval) =>
     /\ upload_calls = <<>>
     /\ ppc # "upload"
     /\ Len(create_calls) <= 1
     /\ \A i \in DOMAIN notify_calls :
          /\ notify_calls[i].persisted
          /\ create_calls = <<notify_calls[i].request_id>>
     /\ ppc = "raised" => exc \in ContentStages
     /\ ppc = "returned" =>
          /\ Len(create_calls) = 1
          /\ Len(notify_calls) = 1
          /\ result.status = "pending"
          /\ result.request_id = create_calls[1]
          /\ result.upload_result = Null
          /\ result.request_id \in DOMAIN store
          /\ store[result.request_id].status = "pending"

\* A run on the approval path has returned although the notifier reported
\* that nothing was delivered.
C9_Witness ==
  /\ ppc = "returned"
  /\ ~options.dry_run
  /\ ~options.skip_approval
  /\ Len(notify_calls) = 1
  /\ ~notify_calls[1].sent
  /\ result.status = "pending"
  /\ result.request_id \in DOMAIN store

\* C28: send_telegram_approval answers a missing configuration and a failed
\* delivery of the message by returning False and never raises for them;
\* the notifier step leaves the store, and with it the request's status, as
\* it was, and whatever it returns the run returns with status pending and
\* the identifier of its request, which is in the store with status
\* pending.
C28_NotifierBestEffort ==
  /\ [](\A i \in DOMAIN notify_calls :
          (~notify_calls[i].configured \/ ~notify_calls[i].posted)
             => ~notify_calls[i].sent)
  /\ [](exc # "send_telegram_approval")
  /\ [][(ppc = "notify" /\ ppc' # "notify") =>
          /\ store' = store
          /\ ppc' = "returned"
          /\ result'.status = "pending"
          /\ result'.request_id = result.request_id
          /\ result'.request_id \in DOMAIN store'
          /\ store'[result'.request_id].status = "pending"]_vars

\* A run has returned after a notifier call that was configured but could
\* not deliver its message and returned False; the request is in the
\* store, pending.
C28_Witness ==
  /\ ppc = "returned"
  /\ Len(notify_calls) = 1
  /\ notify_calls[1].configured
  /\ ~notify_calls[1].posted
  /\ ~notify_calls[1].sent
  /\ result.status = "pending"
  /\ result.request_id \in DOMAIN store
  /\ store[result.request_id].status = "pending"

\* C36: a ProcessResult that process_video returns has status uploaded
\* exactly when an upload result is attached, status pending exactly when
\* a request identifier is attached, neither attached with status dry_run,
\* and never both attached; its status is one of the three.
C36_ResultConsistent ==
  ppc = "returned" =>
     LET has_upload == result.upload_result # Null
         has_request == result.request_id # NoneStr
     IN /\ result.status \in {"uploaded", "pending", "dry_run"}
        /\ result.status = "uploaded" <=> has_upload
        /\ result.status = "pending" <=> has_request
        /\ result.status = "dry_run" => (~has_upload /\ ~has_request)
        /\ ~(has_upload /\ has_request)
        /\ has_upload => result.upload_result.video_id \in VideoIds
        /\ has_request => result.request_id \in Ids

\* The second run of a process has returned a result with status uploaded,
\* the upload result attached and no request identifier.
C36_Witness ==
  /\ ppc = "returned"
  /\ runs = 2
  /\ result.status = "uploaded"
  /\ result.upload_result # Null
  /\ result.upload_result.video_id \in VideoIds
  /\ result.request_id = NoneStr

\* C10: with skip_approval set, dry_run not, and the upload succeeding, the
\* run calls the uploader exactly once, with its in-memory metadata and its
\* thumbnail, creates no approval request, and returns status uploaded with
\* the upload result attached.
C10_SkipApprovalUploads ==
  (options.skip_approval /\ ~options.dry_run) =>
     /\ create_calls = <<>>
     /\ notify_calls = <<>>
     /\ store = store0
     /\ Len(upload_calls) <= 1
     /\ ppc = "returned" =>
          /\ Len(upload_calls) = 1
          /\ upload_calls[1].args.video_path = video_path
          /\ upload_calls[1].args.metadata = metadata
          /\ upload_calls[1].args.thumbnail_path = thumbnail.path
          /\ upload_calls[1].returned # Null
          /\ result.status = "uploaded"
          /\ result.upload_result = upload_calls[1].returned
          /\ result.metadata = metadata
          /\ result.request_id = NoneStr

\* A skip-approval run with a title override has returned after its upload.
C10_Witness ==
  /\ ppc = "returned"
  /\ options.skip_approval
  /\ ~options.dry_run
  /\ metadata.title = "CT"
  /\ Len(upload_calls) = 1
  /\ result.status = "uploaded"

(***************************************************************************)
(* Watcher: claims.                                                        *)
(***************************************************************************)
\* Threads that are inside the callback for path p.
InCallback(p) == {t \in Threads : pc[t] = "callback" /\ ev[t].src_path = p}

\* C1: for one handler, under any interleaving of on_created events for the
\* same path, at most one callback invocation for that path is in progress
\* at any time.
C1_OneCallbackPerPath ==
  \A p \in Paths : Cardinality(InCallback(p)) <= 1

\* C2: the callback is never running for an event whose stability poll has
\* not observed two consecutive equal non-zero sizes, and an event whose poll
\* has observed them goes on to invoke the callback (once).
C2_CallbackOnlyAfterStable ==
  /\ [](\A t \in Threads : pc[t] = "callback" => waitres[t] = "ready")
  /\ [][\A t \in Threads :
         (pc[t] = "exists" /\ waitres[t] = "ready" /\ pc'[t] # "exists")
            => pc'[t] = "callback"]_vars

\* C3: when the stability poll ran into its timeout, on_created abandons the
\* file: the callback is not invoked for that event (and no error is raised),
\* even though the file still exists.
C3_TimeoutAbandons ==
  \A t \in Threads :
     waitres[t] = "timeout" => (pc[t] # "callback" /\ outcome[t] # "raised")

\* C35: a path in the in-flight set has a callback running for it, so the
\* set is empty when no callback runs; a path enters the set only in the
\* step of an on_created that has finished its stability wait, found the
\* file to exist and goes on to the callback for it; and when a callback
\* ends, by returning or by raising, its path is not in the set.
C35_InFlightOnlyDuringCallback ==
  /\ [](\A p \in processing : InCallback(p) # {})
  /\ []((\A t \in Threads : pc[t] # "callback") => processing = {})
  /\ [][\A p \in Paths :
          (p \notin processing /\ p \in processing')
             => \E t \in Threads :
                   /\ pc[t] = "exists"
                   /\ waitres[t] # "none"
                   /\ ev[t].src_path = p
                   /\ fexists[p]
                   /\ pc'[t] = "callback"]_vars
  /\ [][\A t \in Threads :
          (pc[t] = "callback" /\ pc'[t] # "callback")
             => /\ outcome'[t] \in {"returned", "raised"}
                /\ ev[t].src_path \notin processing']_vars

\* A callback has raised, no callback is running and the in-flight set is
\* empty; the other thread was delivered an event for the same path and is
\* polling the file.
C35_Witness ==
  \E t \in Threads, u \in Threads :
     /\ outcome[t] = "raised"
     /\ \A w \in Threads : pc[w] # "callback"
     /\ processing = {}
     /\ calls["a.mp4"] >= 1
     /\ pc[u] = "wait_stat"
     /\ ev[u].src_path = "a.mp4"

\* Thread t returns from on_created in this step, at once, in the given way.
ReturnsAtOnce(t, how) ==
  /\ pc[t] = "idle"
  /\ pc'[t] = "idle"
  /\ outcome[t] # how
  /\ outcome'[t] = how

\* Thread t goes on to poll the file of the event it was delivered.
StartsPolling(t) == pc[t] = "idle" /\ pc'[t] # "idle"

\* What a delivery that returns at once leaves as it was: the in-flight
\* set, the callback invocations, the polls of every thread, the file
\* system.
NothingDone ==
  /\ processing' = processing
  /\ calls' = calls
  /\ polls' = polls
  /\ last_size' = last_size
  /\ \A u \in Threads : pc'[u] = "callback" => pc[u] = "callback"
  /\ fexists' = fexists
  /\ fsize' = fsize

\* C25: an on_created whose path is in the in-flight set when it is
\* delivered returns at once: it invokes no callback, polls nothing and
\* leaves the set as it is; on_created goes on to poll (and, after that, to
\* the callback) only for a path that is not in the set at delivery.
C25_InFlightEventDropped ==
  [][\A t \in Threads :
       /\ ReturnsAtOnce(t, "dropped") => NothingDone
       /\ StartsPolling(t) =>
             /\ pc'[t] = "wait_exists"
             /\ ev'[t].src_path \notin processing
       /\ (pc[t] # "callback" /\ pc'[t] = "callback") => pc[t] = "exists"]_vars

\* One thread is inside the callback for a path, which is in the in-flight
\* set, and the event the other thread was delivered for that path was
\* dropped.
C25_Witness ==
  \E t \in Threads, u \in Threads :
     /\ t # u
     /\ pc[t] = "idle"
     /\ outcome[t] = "dropped"
     /\ pc[u] = "callback"
     /\ ev[u].src_path \in processing
     /\ calls[ev[u].src_path] = 1

\* The paths of the model whose extension, compared without regard to
\* case, is a media extension of the allow-list.
MediaPaths == {"a.mp4"}

\* C26: an on_created for a directory-creation event, or for a path whose
\* extension is not in the allow-list (upper or lower case), returns at
\* once: no callback, no poll, the in-flight set as it was; on_created goes
\* on to poll only for an event that is no directory creation and whose
\* path has a media extension.
C26_FilteredEventIgnored ==
  [][\A t \in Threads :
       /\ (\/ ReturnsAtOnce(t, "ignored_directory")
           \/ ReturnsAtOnce(t, "ignored_extension")) => NothingDone
       /\ StartsPolling(t) =>
             /\ ~ev'[t].is_directory
             /\ ev'[t].src_path \in MediaPaths]_vars

\* While the callback runs for a media file on one thread, the other thread
\* has ignored an event for a file that is no media file; the in-flight set
\* holds the media file only and no other file was polled or called for.
C26_Witness ==
  \E t \in Threads, u \in Threads :
     /\ t # u
     /\ pc[t] = "idle"
     /\ outcome[t] = "ignored_extension"
     /\ pc[u] = "callback"
     /\ processing = {ev[u].src_path}
     /\ \A p \in Paths \ MediaPaths : calls[p] = 0 /\ ~fexists[p]

\* C4: the callback is invoked at most once for a given path, over any
\* sequence of events handled by one handler; after it has completed for a
\* path, a later event for that path does not invoke it again.
C4_InvokedAtMostOncePerPath ==
  \A p \in Paths : calls[p] <= 1

=============================================================================
